---- MODULE Spec2Model ----
(***************************************************************************)
(* AA-tree with embeddable nodes and per-node concurrency states           *)
(* (src/aatree.c), driven through its public operations.                   *)
(*                                                                         *)
(* The heap is a function from node references to the AANode fields.  The  *)
(* C functions are operators over a memory record m that is threaded       *)
(* through them in program order; an operator that returns a value yields  *)
(* [m |-> memory after, ret |-> value].                                    *)
(***************************************************************************)
EXTENDS Integers, Naturals, Sequences, FiniteSets, TLC

(* ------------------------------ bounds --------------------------------- *)
\* distinct keys the callers use
MaxKey == 5
\* extra payload objects that carry a key another payload object carries too
Dups == 1

NumNodes == MaxKey + Dups
Nodes == 1..NumNodes
Keys == 1..MaxKey

(* ------------------------------ memory --------------------------------- *)
\* src/aatree.c:57  #define NIL ((struct AANode *)&_nil)
NIL == 0
NodeOrNil == Nodes \cup {NIL}

\* enum AANodeState
NodeStates == {"Open", "Insert", "Balancing"}

\* static const struct AANode _nil = { NIL, NIL, NIL, 0, Open };
\* (also the content the model gives a payload object fresh from make_node)
_nil == [left |-> NIL, right |-> NIL, parent |-> NIL, level |-> 0, state |-> "Open"]

\* MyNode.value of the payload object that embeds node n (make_node)
KeyOf(n) == ((n - 1) % MaxKey) + 1

\* my_node_cmp(value, node): value - my->value
my_node_cmp(value, node) == value - KeyOf(node)

\* With([x \in {e} |-> body]) is body with x standing for the value of e: the
\* C statement that computes e has run once before the statements of body do.
With(fn) == CHOOSE res \in {g[CHOOSE d \in DOMAIN g : TRUE] : g \in {fn}} : TRUE

\* An access (load, store or CAS) to a field of every node in S; accesses to
\* nodes already handed to the release callback are recorded in m.uaf.
Touch(m, S) ==
    IF \A n \in S : n = NIL \/ m.owner[n] # "released" THEN m
    ELSE [m EXCEPT !.uaf = @ \cup {n \in S : n # NIL /\ m.owner[n] = "released"}]

store(m, self, f, value) ==
    IF self = NIL THEN [m EXCEPT !.h[self][f] = value, !.nilw = TRUE]
    ELSE [Touch(m, {self}) EXCEPT !.h[self][f] = value]

node_atomic_set_left(m, self, value) == store(m, self, "left", value)
node_atomic_set_right(m, self, value) == store(m, self, "right", value)
node_atomic_set_parent(m, self, value) == store(m, self, "parent", value)
node_atomic_set_level(m, self, level) == store(m, self, "level", level)
node_atomic_set_state(m, self, state) == store(m, self, "state", state)

\* the loads: the value read; the access itself is recorded with Touch
node_atomic_get_left(m, self) == m.h[self].left
node_atomic_get_right(m, self) == m.h[self].right
node_atomic_get_parent(m, self) == m.h[self].parent
node_atomic_get_level(m, self) == m.h[self].level
node_atomic_get_state(m, self) == m.h[self].state

(* ---------------------------- acquisition ------------------------------ *)
\* Two CASes in a row: state_from -> Balancing, else Open -> Balancing.
\* Yields the memory after and whether one of them succeeded.
\* a claim that does not look at the state it replaces
claim_from_any_state(m, node, state) ==
    [m |-> node_atomic_set_state(m, node, "Balancing"), ret |-> TRUE]

atomic_rebalancing_state_compare_exchange_weak(m, node, state) ==
    IF node_atomic_get_state(m, node) \in {state, "Open"}
    THEN [m |-> node_atomic_set_state(m, node, "Balancing"), ret |-> TRUE]
    ELSE [m |-> Touch(m, {node}), ret |-> FALSE]

InSeq(x, s) == \E i \in 1..Len(s) : s[i] = x

RECURSIVE release_all(_, _, _)
release_all(m, acquired, i) ==
    IF i > Len(acquired) THEN m
    ELSE With([m1 \in {IF acquired[i] # NIL
                       THEN node_atomic_set_state(m, acquired[i], "Open")
                       ELSE m} |->
           release_all(m1, acquired, i + 1)])

\* a rebalancing_release that leaves the claimed nodes in state Balancing
release_nothing(m, acquired) == m

\* for (i...) if (acquired[i] != NIL) node_atomic_set_state(acquired[i], Open);
rebalancing_release(m, acquired) == release_all(m, acquired, 1)

\* The claims of one attempt, in the order of the code: cand[1] is x (claimed
\* unconditionally), the others are skipped when NIL or already acquired.
\* an attempt that fails without releasing what it claimed
RECURSIVE acquire_from_no_unwind(_, _, _, _, _)
acquire_from_no_unwind(m, cand, i, acquired, state_from) ==
    IF i > Len(cand) THEN [m |-> m, ret |-> TRUE, acquired |-> acquired]
    ELSE IF i > 1 /\ (cand[i] = NIL \/ InSeq(cand[i], acquired))
    THEN acquire_from_no_unwind(m, cand, i + 1, acquired, state_from)
    ELSE With([c \in {atomic_rebalancing_state_compare_exchange_weak(m, cand[i], state_from)} |->
           IF c.ret
           THEN With([got \in {Append(acquired, cand[i])} |->
                  acquire_from_no_unwind(c.m, cand, i + 1, got, state_from)])
           ELSE [m |-> c.m, ret |-> FALSE, acquired |-> acquired]])

\* the claims without the is_already_acquired test
RECURSIVE acquire_from_reclaiming(_, _, _, _, _)
acquire_from_reclaiming(m, cand, i, acquired, state_from) ==
    IF i > Len(cand) THEN [m |-> m, ret |-> TRUE, acquired |-> acquired]
    ELSE IF i > 1 /\ cand[i] = NIL
    THEN acquire_from_reclaiming(m, cand, i + 1, acquired, state_from)
    ELSE With([c \in {atomic_rebalancing_state_compare_exchange_weak(m, cand[i], state_from)} |->
           IF c.ret
           THEN With([got \in {Append(acquired, cand[i])} |->
                  acquire_from_reclaiming(c.m, cand, i + 1, got, state_from)])
           ELSE [m |-> rebalancing_release(c.m, acquired), ret |-> FALSE,
                 acquired |-> acquired]])

RECURSIVE acquire_from(_, _, _, _, _)
acquire_from(m, cand, i, acquired, state_from) ==
    IF i > Len(cand) THEN [m |-> m, ret |-> TRUE, acquired |-> acquired]
    ELSE IF i > 1 /\ (cand[i] = NIL \/ InSeq(cand[i], acquired))
    THEN acquire_from(m, cand, i + 1, acquired, state_from)
    ELSE With([c \in {atomic_rebalancing_state_compare_exchange_weak(m, cand[i], state_from)} |->
           IF c.ret
           THEN With([got \in {Append(acquired, cand[i])} |->
                  acquire_from(c.m, cand, i + 1, got, state_from)])
           ELSE [m |-> rebalancing_release(c.m, acquired), ret |-> FALSE,
                 acquired |-> acquired]])

\* rebalancing_acquire, lines 135-141: the loads that precede the claims
neighbourhood(m, x) ==
    LET x_parent == node_atomic_get_parent(m, x)
        x_parent_parent == node_atomic_get_parent(m, x_parent)
        x_left == node_atomic_get_left(m, x)
        x_right == node_atomic_get_right(m, x)
        x_left_right == IF x_left # NIL THEN node_atomic_get_right(m, x_left) ELSE NIL
        x_right_left == IF x_right # NIL THEN node_atomic_get_left(m, x_right) ELSE NIL
        x_right_right == IF x_right # NIL THEN node_atomic_get_right(m, x_right) ELSE NIL
    IN <<x, x_parent, x_parent_parent, x_left, x_right,
         x_left_right, x_right_left, x_right_right>>

\* the nodes those loads dereference: x, its parent and its two children
loaded(cand) == {cand[1], cand[2], cand[4], cand[5]}

rebalancing_acquire(m, x, state_from) ==
    With([cand \in {neighbourhood(m, x)} |->
    With([m0 \in {Touch(m, loaded(cand))} |->
      acquire_from(m0, cand, 1, <<>>, state_from)])])

(* ------------------------------ rotations ------------------------------ *)
\* a skew that leaves the parent of the moved child as it was
skew_moved_parent_kept(m, x) ==
    LET y == node_atomic_get_left(m, x)
        x_level == node_atomic_get_level(m, x)
        y_level == node_atomic_get_level(m, y)
        y_right == node_atomic_get_right(m, y)
    IN With([m0 \in {Touch(m, {x, y})} |->
         IF x_level = y_level /\ x # NIL
         THEN With([m1 \in {node_atomic_set_left(m0, x, y_right)} |->
              With([m3 \in {node_atomic_set_right(m1, y, x)} |->
              With([m4 \in {node_atomic_set_parent(m3, y, node_atomic_get_parent(m3, x))} |->
                [m |-> node_atomic_set_parent(m4, x, y), ret |-> y]])])])
         ELSE [m |-> m0, ret |-> x]])

\* a split that leaves the level of the new subtree root as it was
split_level_kept(m, x) ==
    LET y == node_atomic_get_right(m, x)
        y_right == node_atomic_get_right(m, y)
        x_level == node_atomic_get_level(m, x)
        y_right_level == node_atomic_get_level(m, y_right)
        y_left == node_atomic_get_left(m, y)
    IN With([m0 \in {Touch(m, {x, y, y_right})} |->
         IF x_level = y_right_level /\ x # NIL
         THEN With([m1 \in {node_atomic_set_right(m0, x, y_left)} |->
              With([m2 \in {IF y_left # NIL
                            THEN node_atomic_set_parent(m1, y_left, x)
                            ELSE m1} |->
              With([m3 \in {node_atomic_set_left(m2, y, x)} |->
              With([m5 \in {node_atomic_set_parent(m3, y, node_atomic_get_parent(m3, x))} |->
                [m |-> node_atomic_set_parent(m5, x, y), ret |-> y]])])])])
         ELSE [m |-> m0, ret |-> x]])

skew(m, x) ==
    LET y == node_atomic_get_left(m, x)
        x_level == node_atomic_get_level(m, x)
        y_level == node_atomic_get_level(m, y)
        y_right == node_atomic_get_right(m, y)
    IN With([m0 \in {Touch(m, {x, y})} |->
         IF x_level = y_level /\ x # NIL
         THEN With([m1 \in {node_atomic_set_left(m0, x, y_right)} |->
              With([m2 \in {IF y_right # NIL
                            THEN node_atomic_set_parent(m1, y_right, x)
                            ELSE m1} |->
              With([m3 \in {node_atomic_set_right(m2, y, x)} |->
              With([m4 \in {node_atomic_set_parent(m3, y, node_atomic_get_parent(m3, x))} |->
                [m |-> node_atomic_set_parent(m4, x, y), ret |-> y]])])])])
         ELSE [m |-> m0, ret |-> x]])

\* a split that never rotates
split_never(m, x) == [m |-> m, ret |-> x]

split(m, x) ==
    LET y == node_atomic_get_right(m, x)
        y_right == node_atomic_get_right(m, y)
        x_level == node_atomic_get_level(m, x)
        y_right_level == node_atomic_get_level(m, y_right)
        y_left == node_atomic_get_left(m, y)
    IN With([m0 \in {Touch(m, {x, y, y_right})} |->
         IF x_level = y_right_level /\ x # NIL
         THEN With([m1 \in {node_atomic_set_right(m0, x, y_left)} |->
              With([m2 \in {IF y_left # NIL
                            THEN node_atomic_set_parent(m1, y_left, x)
                            ELSE m1} |->
              With([m3 \in {node_atomic_set_left(m2, y, x)} |->
              With([m4 \in {node_atomic_set_level(m3, y, node_atomic_get_level(m3, y) + 1)} |->
              With([m5 \in {node_atomic_set_parent(m4, y, node_atomic_get_parent(m4, x))} |->
                [m |-> node_atomic_set_parent(m5, x, y), ret |-> y]])])])])])
         ELSE [m |-> m0, ret |-> x]])

(* ------------------------------ rebalance ------------------------------ *)
\* while (true) { if (rebalancing_acquire(...)) break; }  run by the only
\* thread that is active: a failed attempt leaves the state that made it fail
\* as it was, so the loop never exits (m.pc = "spin").
rebalance_on_insert(m, current) ==
    With([a \in {rebalancing_acquire(m, current, "Insert")} |->
      IF ~a.ret THEN [m |-> [a.m EXCEPT !.pc = "spin"], ret |-> NIL]
      ELSE With([skewed \in {skew(a.m, current)} |->
           With([new_head \in {split(skewed.m, skewed.ret)} |->
             [m |-> rebalancing_release(new_head.m, a.acquired),
              ret |-> new_head.ret]])])])

\* The reshaping of rebalance_on_remove, lines 354-371, on claimed memory m.
reshape(m, current0, right_node0, current_level0) ==
    LET current_level == current_level0 - 1
    IN With([m1 \in {node_atomic_set_level(m, current0, current_level)} |->
       With([m2 \in {IF node_atomic_get_level(m1, right_node0) > current_level
                     THEN node_atomic_set_level(m1, right_node0, current_level)
                     ELSE Touch(m1, {right_node0})} |->
       \* current = skew(current)
       With([s1 \in {skew(m2, current0)} |->
       \* right_node = current->right; current->right = skew(right_node)
       With([t1 \in {Touch(s1.m, {s1.ret})} |->
       With([s2 \in {skew(t1, node_atomic_get_right(t1, s1.ret))} |->
       With([m3 \in {node_atomic_set_right(s2.m, s1.ret, s2.ret)} |->
       \* right_node = current->right; right_node->right = skew(right_node->right)
       With([right_node \in {node_atomic_get_right(m3, s1.ret)} |->
       With([t2 \in {Touch(m3, {s1.ret, right_node})} |->
       With([s3 \in {skew(t2, node_atomic_get_right(t2, right_node))} |->
       With([m4 \in {node_atomic_set_right(s3.m, right_node, s3.ret)} |->
       \* current = split(current)
       With([s4 \in {split(m4, s1.ret)} |->
       \* current->right = split(current->right)
       With([t3 \in {Touch(s4.m, {s4.ret})} |->
       With([s5 \in {split(t3, node_atomic_get_right(t3, s4.ret))} |->
         [m |-> node_atomic_set_right(s5.m, s4.ret, s5.ret), ret |-> s4.ret]
       ])])])])])])])])])])])])])

\* rebalance_on_remove, lines 345-372: the level fix-up and the reshaping
level_fix(m, current) ==
    LET left_node == node_atomic_get_left(m, current)
        right_node == node_atomic_get_right(m, current)
        left_level == node_atomic_get_level(m, left_node)
        right_level == node_atomic_get_level(m, right_node)
        current_level == node_atomic_get_level(m, current)
    IN With([m0 \in {Touch(m, {current, left_node, right_node})} |->
         IF left_level < current_level - 1 \/ right_level < current_level - 1
         THEN reshape(m0, current, right_node, current_level)
         ELSE [m |-> m0, ret |-> current]])

\* rebalancing_release on the `acquired` array that rebalance_on_remove(NIL)
\* never initialised: its content is m.stale; the released nodes it stores to
\* are recorded in m.wild.
release_uninit(m) ==
    With([m1 \in {rebalancing_release([m EXCEPT !.uaf = {}], m.stale)} |->
      [m1 EXCEPT !.wild = @ \cup m1.uaf, !.uaf = m.uaf, !.usedStale = TRUE]])

rebalance_on_remove(m, current) ==
    IF m.pc # "run" THEN [m |-> m, ret |-> NIL]
    ELSE IF current = NIL
    THEN With([fixed \in {level_fix(m, current)} |->
           [m |-> release_uninit(fixed.m), ret |-> fixed.ret]])
    ELSE With([a \in {rebalancing_acquire(m, current, "Open")} |->
           IF ~a.ret THEN [m |-> [a.m EXCEPT !.pc = "spin"], ret |-> NIL]
           ELSE With([fixed \in {level_fix(a.m, current)} |->
                  [m |-> rebalancing_release(fixed.m, a.acquired),
                   ret |-> fixed.ret]])])

(* -------------------------------- insert ------------------------------- *)
\* an insert_sub that descends to the right on an equal key instead of
\* returning the node that holds it
RECURSIVE insert_sub_links_equal(_, _, _, _, _)
insert_sub_links_equal(m, current, prev, value, node) ==
    IF m.pc # "run" THEN [m |-> m, ret |-> NIL]
    ELSE IF current = NIL
    THEN IF prev # NIL /\ node_atomic_get_state(m, prev) # "Open"
         THEN [m |-> Touch(m, {prev}), ret |-> NIL]
         ELSE With([m1 \in {IF prev # NIL
                            THEN node_atomic_set_state(m, prev, "Insert")
                            ELSE m} |->
              With([m2 \in {node_atomic_set_parent(m1, node, NIL)} |->
              With([m3 \in {node_atomic_set_left(m2, node, NIL)} |->
              With([m4 \in {node_atomic_set_right(m3, node, NIL)} |->
              With([m5 \in {node_atomic_set_level(m4, node, 1)} |->
                [m |-> [m5 EXCEPT !.count = @ + 1, !.owner[node] = "tree"],
                 ret |-> node]])])])])])
    ELSE
    LET cmp == my_node_cmp(value, current)
    IN With([m0 \in {Touch(m, {current})} |->
       With([child \in {IF cmp >= 0 THEN node_atomic_get_right(m0, current)
                        ELSE node_atomic_get_left(m0, current)} |->
         IF child = current THEN [m |-> [m0 EXCEPT !.pc = "abort"], ret |-> NIL]
         ELSE With([tmp \in {insert_sub_links_equal(m0, child, current, value, node)} |->
                IF tmp.ret = NIL THEN [m |-> tmp.m, ret |-> NIL]
                ELSE IF tmp.ret # child
                THEN With([m1 \in {IF cmp >= 0
                                   THEN node_atomic_set_right(tmp.m, current, tmp.ret)
                                   ELSE node_atomic_set_left(tmp.m, current, tmp.ret)} |->
                     With([m2 \in {node_atomic_set_parent(m1, tmp.ret, current)} |->
                       rebalance_on_insert(m2, current)])])
                ELSE rebalance_on_insert(tmp.m, current)])])])

\* an insert_sub that counts the node before the landing claim
RECURSIVE insert_sub_counts_first(_, _, _, _, _)
insert_sub_counts_first(m, current, prev, value, node) ==
    IF m.pc # "run" THEN [m |-> m, ret |-> NIL]
    ELSE IF current = NIL
    THEN IF prev # NIL /\ node_atomic_get_state(m, prev) # "Open"
         THEN [m |-> [Touch(m, {prev}) EXCEPT !.count = @ + 1], ret |-> NIL]
         ELSE With([m1 \in {IF prev # NIL
                            THEN node_atomic_set_state(m, prev, "Insert")
                            ELSE m} |->
              With([m2 \in {node_atomic_set_parent(m1, node, NIL)} |->
              With([m3 \in {node_atomic_set_left(m2, node, NIL)} |->
              With([m4 \in {node_atomic_set_right(m3, node, NIL)} |->
              With([m5 \in {node_atomic_set_level(m4, node, 1)} |->
                [m |-> [m5 EXCEPT !.count = @ + 1, !.owner[node] = "tree"],
                 ret |-> node]])])])])])
    ELSE
    LET cmp == my_node_cmp(value, current)
    IN With([m0 \in {Touch(m, {current})} |->
       With([child \in {IF cmp > 0 THEN node_atomic_get_right(m0, current)
                        ELSE node_atomic_get_left(m0, current)} |->
         IF cmp = 0 THEN [m |-> m0, ret |-> current]
         ELSE IF child = current THEN [m |-> [m0 EXCEPT !.pc = "abort"], ret |-> NIL]
         ELSE With([tmp \in {insert_sub_counts_first(m0, child, current, value, node)} |->
                IF tmp.ret = NIL THEN [m |-> tmp.m, ret |-> NIL]
                ELSE IF tmp.ret # child
                THEN With([m1 \in {IF cmp > 0
                                   THEN node_atomic_set_right(tmp.m, current, tmp.ret)
                                   ELSE node_atomic_set_left(tmp.m, current, tmp.ret)} |->
                     With([m2 \in {node_atomic_set_parent(m1, tmp.ret, current)} |->
                       rebalance_on_insert(m2, current)])])
                ELSE rebalance_on_insert(tmp.m, current)])])])

RECURSIVE insert_sub(_, _, _, _, _)
insert_sub(m, current, prev, value, node) ==
    IF m.pc # "run" THEN [m |-> m, ret |-> NIL]
    ELSE IF current = NIL
    THEN IF prev # NIL /\ node_atomic_get_state(m, prev) # "Open"
         THEN [m |-> Touch(m, {prev}), ret |-> NIL]
         ELSE With([m1 \in {IF prev # NIL
                            THEN node_atomic_set_state(m, prev, "Insert")
                            ELSE m} |->
              With([m2 \in {node_atomic_set_parent(m1, node, NIL)} |->
              With([m3 \in {node_atomic_set_left(m2, node, NIL)} |->
              With([m4 \in {node_atomic_set_right(m3, node, NIL)} |->
              With([m5 \in {node_atomic_set_level(m4, node, 1)} |->
                [m |-> [m5 EXCEPT !.count = @ + 1, !.owner[node] = "tree"],
                 ret |-> node]])])])])])
    ELSE
    LET cmp == my_node_cmp(value, current)
    IN With([m0 \in {Touch(m, {current})} |->
       With([child \in {IF cmp > 0 THEN node_atomic_get_right(m0, current)
                        ELSE node_atomic_get_left(m0, current)} |->
         IF cmp = 0 THEN [m |-> m0, ret |-> current]
         ELSE IF child = current THEN [m |-> [m0 EXCEPT !.pc = "abort"], ret |-> NIL]
         ELSE With([tmp \in {insert_sub(m0, child, current, value, node)} |->
                IF tmp.ret = NIL THEN [m |-> tmp.m, ret |-> NIL]
                ELSE IF tmp.ret # child
                THEN With([m1 \in {IF cmp > 0
                                   THEN node_atomic_set_right(tmp.m, current, tmp.ret)
                                   ELSE node_atomic_set_left(tmp.m, current, tmp.ret)} |->
                     With([m2 \in {node_atomic_set_parent(m1, tmp.ret, current)} |->
                       rebalance_on_insert(m2, current)])])
                ELSE rebalance_on_insert(tmp.m, current)])])])

\* an aatree_insert that does not store the new subtree root in tree->root
aatree_insert_root_kept(m, value, node) ==
    With([m0 \in {node_atomic_set_state(m, node, "Open")} |->
    With([sub \in {insert_sub(m0, m0.root, NIL, value, node)} |->
      IF sub.m.pc # "run" THEN sub.m
      ELSE IF sub.ret = NIL THEN [sub.m EXCEPT !.pc = "spin"]
      ELSE sub.m])])

\* The retry loop runs insert_sub again on unchanged memory when it returned
\* NIL, so a failed landing claim repeats for ever (m.pc = "spin").
aatree_insert(m, value, node) ==
    With([m0 \in {node_atomic_set_state(m, node, "Open")} |->
    With([sub \in {insert_sub(m0, m0.root, NIL, value, node)} |->
      IF sub.m.pc # "run" THEN sub.m
      ELSE IF sub.ret = NIL THEN [sub.m EXCEPT !.pc = "spin"]
      ELSE [sub.m EXCEPT !.root = sub.ret]])])

(* -------------------------------- remove ------------------------------- *)
\* tree->release_cb(node, tree): the node returns to the caller; what its
\* memory holds from then on is indeterminate (m.junk).
release_cb(m, node) ==
    [m EXCEPT !.owner[node] = "released",
              !.rel = Append(@, node),
              !.relCount[node] = @ + 1,
              !.h[node] = IF m.junk.state = "kept" THEN @
                          ELSE [_nil EXCEPT !.parent = m.junk.parent,
                                            !.state = m.junk.state]]

RECURSIVE steal_leftmost(_, _)
steal_leftmost(m, current) ==
    IF m.pc # "run" THEN [m |-> m, ret |-> NIL, save |-> NIL]
    ELSE
    With([m0 \in {Touch(m, {current})} |->
    With([left \in {node_atomic_get_left(m0, current)} |->
      IF left = NIL
      THEN [m |-> m0, ret |-> node_atomic_get_right(m0, current), save |-> current]
      ELSE With([s \in {steal_leftmost(m0, left)} |->
             IF s.m.pc # "run" THEN s
             ELSE With([m1 \in {node_atomic_set_left(s.m, current, s.ret)} |->
                  With([bal \in {rebalance_on_remove(m1, current)} |->
                    [m |-> bal.m, ret |-> bal.ret, save |-> s.save]])])])])])

\* a drop_this_node whose successor does not take over the fields of old
copy_skipped(m, new, old) == [m EXCEPT !.stole = TRUE]

\* *new = *old
copy_node(m, new, old) ==
    [Touch(m, {old, new}) EXCEPT !.h[new] = m.h[old], !.stole = TRUE]

\* a drop_this_node that leaves tree->count as it is
drop_this_node_count_kept(m, old) ==
    LET left == node_atomic_get_left(m, old)
        right == node_atomic_get_right(m, old)
    IN With([m0 \in {Touch(m, {old})} |->
       With([d \in {IF left = NIL THEN [m |-> m0, new |-> right]
                    ELSE IF right = NIL THEN [m |-> m0, new |-> left]
                    ELSE With([s \in {steal_leftmost(m0, right)} |->
                           IF s.m.pc # "run" THEN [m |-> s.m, new |-> NIL]
                           ELSE With([m1 \in {node_atomic_set_right(s.m, old, s.ret)} |->
                                  [m |-> copy_node(m1, s.save, old), new |-> s.save]])])} |->
         IF d.m.pc # "run" THEN [m |-> d.m, ret |-> NIL]
         ELSE [m |-> release_cb(d.m, old), ret |-> d.new]])])

\* a drop_this_node that hands the node that takes the slot to the release
\* callback, not the node it drops
drop_this_node_releases_new(m, old) ==
    LET left == node_atomic_get_left(m, old)
        right == node_atomic_get_right(m, old)
    IN With([m0 \in {Touch(m, {old})} |->
       With([d \in {IF left = NIL THEN [m |-> m0, new |-> right]
                    ELSE IF right = NIL THEN [m |-> m0, new |-> left]
                    ELSE With([s \in {steal_leftmost(m0, right)} |->
                           IF s.m.pc # "run" THEN [m |-> s.m, new |-> NIL]
                           ELSE With([m1 \in {node_atomic_set_right(s.m, old, s.ret)} |->
                                  [m |-> copy_node(m1, s.save, old), new |-> s.save]])])} |->
         IF d.m.pc # "run" THEN [m |-> d.m, ret |-> NIL]
         ELSE With([m2 \in {IF d.new # NIL THEN release_cb(d.m, d.new) ELSE d.m} |->
                [m |-> [m2 EXCEPT !.count = m2.count - 1], ret |-> d.new]])])])

\* drop_this_node, lines 515-533: the node that takes the place of old
take_place(m, old) ==
    LET left == node_atomic_get_left(m, old)
        right == node_atomic_get_right(m, old)
    IN With([m0 \in {Touch(m, {old})} |->
         IF left = NIL THEN [m |-> m0, new |-> right]
         ELSE IF right = NIL THEN [m |-> m0, new |-> left]
         ELSE With([s \in {steal_leftmost(m0, right)} |->
                IF s.m.pc # "run" THEN [m |-> s.m, new |-> NIL]
                ELSE With([m1 \in {node_atomic_set_right(s.m, old, s.ret)} |->
                       [m |-> copy_node(m1, s.save, old), new |-> s.save]])])])

\* drop_this_node, lines 535-540: the release callback and the count
cleanup(m, old) ==
    With([m2 \in {release_cb(m, old)} |-> [m2 EXCEPT !.count = m2.count - 1]])

drop_this_node(m, old) ==
    With([d \in {take_place(m, old)} |->
      IF d.m.pc # "run" THEN [m |-> d.m, ret |-> NIL]
      ELSE [m |-> cleanup(d.m, old), ret |-> d.new]])

RECURSIVE remove_sub(_, _, _)
remove_sub(m, current, value) ==
    IF current = NIL THEN [m |-> m, ret |-> current]
    ELSE
    LET cmp == my_node_cmp(value, current)
    IN With([m0 \in {Touch(m, {current})} |->
       With([sub \in {IF cmp > 0
                      THEN With([s \in {remove_sub(m0, node_atomic_get_right(m0, current), value)} |->
                             [m |-> IF s.m.pc # "run" THEN s.m
                                    ELSE node_atomic_set_right(s.m, current, s.ret),
                              ret |-> current]])
                      ELSE IF cmp < 0
                      THEN With([s \in {remove_sub(m0, node_atomic_get_left(m0, current), value)} |->
                             [m |-> IF s.m.pc # "run" THEN s.m
                                    ELSE node_atomic_set_left(s.m, current, s.ret),
                              ret |-> current]])
                      ELSE drop_this_node(m0, current)} |->
         rebalance_on_remove(sub.m, sub.ret)])])

aatree_remove(m, value) ==
    With([sub \in {remove_sub(m, m.root, value)} |->
      IF sub.m.pc # "run" THEN sub.m ELSE [sub.m EXCEPT !.root = sub.ret]])

(* --------------------------- walk and teardown -------------------------- *)
\* the walker: tree->release_cb for aatree_destroy, else a visitor that
\* appends the node to m.visited
walker(m, w, node) ==
    IF w = "release_cb" THEN release_cb(m, node)
    ELSE [Touch(m, {node}) EXCEPT !.visited = Append(@, node)]

\* a walk_sub that calls the walker before the left subtree in every order
RECURSIVE walk_sub_walker_first(_, _, _, _)
walk_sub_walker_first(m, current, wtype, w) ==
    IF current = NIL THEN m
    ELSE
    With([current_left \in {node_atomic_get_left(m, current)} |->
    With([current_right \in {node_atomic_get_right(m, current)} |->
    With([m0 \in {Touch(m, {current})} |->
    With([m1 \in {walker(m0, w, current)} |->
    With([m2 \in {walk_sub_walker_first(m1, current_left, wtype, w)} |->
      walk_sub_walker_first(m2, current_right, wtype, w)])])])])])

RECURSIVE walk_sub(_, _, _, _)
walk_sub(m, current, wtype, w) ==
    IF current = NIL THEN m
    ELSE
    With([current_left \in {node_atomic_get_left(m, current)} |->
    With([current_right \in {node_atomic_get_right(m, current)} |->
    With([m0 \in {Touch(m, {current})} |->
      IF wtype = "AA_WALK_IN_ORDER"
      THEN With([m1 \in {walk_sub(m0, current_left, wtype, w)} |->
           With([m2 \in {walker(m1, w, current)} |->
             walk_sub(m2, current_right, wtype, w)])])
      ELSE IF wtype = "AA_WALK_POST_ORDER"
      THEN With([m1 \in {walk_sub(m0, current_left, wtype, w)} |->
           With([m2 \in {walk_sub(m1, current_right, wtype, w)} |->
             walker(m2, w, current)])])
      ELSE With([m1 \in {walker(m0, w, current)} |->
           With([m2 \in {walk_sub(m1, current_left, wtype, w)} |->
             walk_sub(m2, current_right, wtype, w)])])])])])

WalkTypes == {"AA_WALK_IN_ORDER", "AA_WALK_POST_ORDER", "AA_WALK_PRE_ORDER"}

aatree_walk(m, wtype, w) == walk_sub(m, m.root, wtype, w)

\* an aatree_destroy that walks in AA_WALK_PRE_ORDER
aatree_destroy_pre_order(m) ==
    With([m1 \in {walk_sub(m, m.root, "AA_WALK_PRE_ORDER", "release_cb")} |->
      [m1 EXCEPT !.root = NIL, !.count = 0]])

aatree_destroy(m) ==
    With([m1 \in {walk_sub(m, m.root, "AA_WALK_POST_ORDER", "release_cb")} |->
      [m1 EXCEPT !.root = NIL, !.count = 0]])

(* -------------------------------- search ------------------------------- *)
\* the absence marker aatree_search returns
NULL == -1

\* an aatree_search that claims the nodes it passes
RECURSIVE search_from_claiming(_, _, _)
search_from_claiming(m, current, value) ==
    IF current = NIL THEN [m |-> m, ret |-> NULL]
    ELSE LET cmp == my_node_cmp(value, current)
         IN With([m0 \in {node_atomic_set_state(m, current, "Balancing")} |->
              IF cmp > 0
              THEN With([next \in {node_atomic_get_right(m0, current)} |->
                     search_from_claiming(m0, next, value)])
              ELSE IF cmp < 0
              THEN With([next \in {node_atomic_get_left(m0, current)} |->
                     search_from_claiming(m0, next, value)])
              ELSE [m |-> m0, ret |-> current]])

RECURSIVE search_from(_, _, _)
search_from(m, current, value) ==
    IF current = NIL THEN [m |-> m, ret |-> NULL]
    ELSE LET cmp == my_node_cmp(value, current)
         IN With([m0 \in {Touch(m, {current})} |->
              IF cmp > 0
              THEN With([next \in {node_atomic_get_right(m0, current)} |->
                     search_from(m0, next, value)])
              ELSE IF cmp < 0
              THEN With([next \in {node_atomic_get_left(m0, current)} |->
                     search_from(m0, next, value)])
              ELSE [m |-> m0, ret |-> current]])

aatree_search(m, value) == search_from(m, m.root, value)

(* --------------------------- the state machine -------------------------- *)
VARIABLES
    h,          \* the AANode fields of the sentinel and of every payload object
    root,       \* tree->root
    count,      \* tree->count
    inited,     \* aatree_init has run and aatree_destroy has not (rw_lock is valid)
    owner,      \* who owns each payload object: "caller", "tree", or "released"
    relCount,   \* how often the release callback was called on each node
    nilw,       \* some operation stored to, or claimed, the sentinel
    keys,       \* the keys the callers put in and did not take out again
    last,       \* the operation that ran last and what it did
    th          \* where each thread of the concurrent runs is in its operation

vars == <<h, root, count, inited, owner, relCount, nilw, keys, last, th>>

\* most entries the uninitialised `acquired` array of rebalance_on_remove(NIL)
\* is taken to hold
MaxStale == 1
\* the node references that indeterminate memory is taken to hold are NIL and
\* the nodes 1..MaxJunkRef
MaxJunkRef == 1

JunkRefs == {n \in NodeOrNil : n <= MaxJunkRef}

\* what the memory of a released node may hold when the tree reads it again
\* (the tree reads the parent and the state of such a node, nothing else)
Junk == [state : NodeStates, parent : JunkRefs]
\* what an uninitialised `acquired` array may hold
StaleArrays == UNION {[1..k -> JunkRefs] : k \in 0..MaxStale}

\* The memory an operation starts on.
Mem(junk, stale) ==
    [h |-> [n \in NodeOrNil |->
              IF n # NIL /\ owner[n] = "released"
              THEN [_nil EXCEPT !.parent = junk.parent, !.state = junk.state]
              ELSE h[n]],
     root |-> root, count |-> count, owner |-> owner, relCount |-> relCount,
     nilw |-> nilw, rel |-> <<>>, visited |-> <<>>, uaf |-> {}, wild |-> {},
     pc |-> "run",
     junk |-> junk, stale |-> stale, usedStale |-> FALSE, stole |-> FALSE]

NoJunk == [state |-> "Open", parent |-> NIL]

\* The indeterminate values an execution depends on: m0 is the execution with
\* NoJunk and an empty array; when it read no released memory (no
\* uninitialised array) it is the only execution there is.
JunkFor(m0) == IF m0.uaf = {} THEN {NoJunk} ELSE Junk
StaleFor(m0) == IF m0.usedStale THEN StaleArrays ELSE {<<>>}

\* The state an operation leaves: the fields of released nodes are not the
\* program's any more and are not carried.
Commit(m, op, arg) ==
    /\ h' = [n \in NodeOrNil |->
               IF n # NIL /\ m.owner[n] = "released" THEN _nil ELSE m.h[n]]
    /\ root' = m.root
    /\ count' = m.count
    /\ owner' = m.owner
    /\ relCount' = m.relCount
    /\ nilw' = m.nilw
    /\ last' = [op |-> op, arg |-> arg, rel |-> m.rel, uaf |-> m.uaf,
                wild |-> m.wild, stole |-> m.stole, pc |-> m.pc]
    /\ UNCHANGED th

Running == inited /\ last.pc = "run"

NoOp == [op |-> "init", arg |-> NIL, rel |-> <<>>, uaf |-> {}, wild |-> {},
         stole |-> FALSE, pc |-> "run"]

\* threads of the concurrent runs
NumThreads == 2
Threads == 1..NumThreads

\* a thread that is in no operation
Idle == [pc |-> "idle", op |-> "none", key |-> NIL, node |-> NIL, present |-> FALSE,
         stack |-> <<>>, ret |-> NIL, cand |-> <<>>, acquired |-> <<>>, ops |-> 0,
         unwound |-> <<>>, retried |-> FALSE, old_count |-> 0, first_insert |-> FALSE]

Init ==
    /\ h = [n \in NodeOrNil |-> _nil]
    /\ root = NIL
    /\ count = 0
    /\ inited = TRUE
    /\ owner = [n \in Nodes |-> "caller"]
    /\ relCount = [n \in Nodes |-> 0]
    /\ nilw = FALSE
    /\ keys = {}
    /\ last = NoOp
    /\ th = [t \in Threads |-> Idle]

\* aatree_init on a destroyed tree
AatreeInit ==
    /\ ~inited /\ last.pc = "run"
    /\ inited' = TRUE
    /\ keys' = {}
    /\ \E before \in {Mem(NoJunk, <<>>)} :
         Commit([before EXCEPT !.root = NIL, !.count = 0], "init", NIL)

\* my_insert: aatree_insert(tree, value, &my->node) with a payload object the
\* caller owns
Insert(node) ==
    /\ Running
    /\ owner[node] = "caller"
    /\ \E start \in {Mem(NoJunk, <<>>)} :
       \E m0 \in {aatree_insert(start, KeyOf(node), node)} :
       \E junk \in JunkFor(m0) :
       \E before \in {Mem(junk, <<>>)} :
       \E after \in {IF junk = NoJunk THEN m0 ELSE aatree_insert(before, KeyOf(node), node)} :
         Commit(after, "insert", node)
    /\ keys' = keys \cup {KeyOf(node)}
    /\ UNCHANGED inited

Remove(value) ==
    /\ Running
    /\ \E start \in {Mem(NoJunk, <<>>)} :
       \E m0 \in {aatree_remove(start, value)} :
       \E junk \in JunkFor(m0), stale \in StaleFor(m0) :
       \E before \in {Mem(junk, stale)} :
       \E after \in {IF junk = NoJunk /\ stale = <<>> THEN m0 ELSE aatree_remove(before, value)} :
         \* last.arg is the key when the callers had put it in; absent
         \* keys are not told apart
         Commit(after, "remove", IF value \in keys THEN value ELSE NIL)
    /\ keys' = keys \ {value}
    /\ UNCHANGED inited

Search(value) ==
    /\ Running
    /\ \E before \in {Mem(NoJunk, <<>>)} :
       \E after \in {aatree_search(before, value)} :
         Commit(after.m, "search", NIL)
    /\ UNCHANGED <<inited, keys>>

Walk(wtype) ==
    /\ Running
    /\ \E before \in {Mem(NoJunk, <<>>)} :
       \E after \in {aatree_walk(before, wtype, "visitor")} :
         Commit(after, "walk", NIL)
    /\ UNCHANGED <<inited, keys>>

Destroy ==
    /\ Running
    /\ \E start \in {Mem(NoJunk, <<>>)} :
       \E m0 \in {aatree_destroy(start)} :
       \E junk \in JunkFor(m0) :
       \E before \in {Mem(junk, <<>>)} :
       \E after \in {IF junk = NoJunk THEN m0 ELSE aatree_destroy(before)} :
         Commit(after, "destroy", NIL)
    /\ keys' = {}
    /\ inited' = FALSE

Next ==
    \/ AatreeInit
    \/ \E node \in Nodes : Insert(node)
    \/ \E value \in Keys : Remove(value)
    \/ \E value \in Keys : Search(value)
    \/ \E wtype \in WalkTypes : Walk(wtype)
    \/ Destroy

Spec == Init /\ [][Next]_vars

(* ----------------------- operations by concurrent threads ----------------- *)
(* A thread runs aatree_insert between pthread_rwlock_wrlock and unlock,     *)
(* aatree_search between pthread_rwlock_rdlock and unlock, and aatree_remove *)
(* with no lock.  A call is cut where insert_sub / remove_sub call and       *)
(* return: entering a frame (compare, load the child), the landing of the    *)
(* new leaf, dropping the matching node (up to *new = *old, then the         *)
(* release callback and the load of the count, then the store of the        *)
(* count), storing the returned subtree in the parent, and, of               *)
(* the rebalancing, the loads of rebalancing_acquire, its claims, the        *)
(* rotations and the release.  The statements of one such piece              *)
(* run without another thread in between; every run of the model is a run    *)
(* of the program.  The memory of a released node keeps its content here,    *)
(* and last.uaf collects the released nodes the threads accessed.  keys      *)
(* holds the keys in the tree before the threads start and those whose       *)
(* aatree_insert has returned.                                               *)

\* the keys in the tree before the threads start are among the ConcKeys
\* keys from FirstKey on
ConcKeys == 3
FirstKey == 2
InitialKeys == FirstKey..(FirstKey + ConcKeys - 1)

Kept == [state |-> "kept", parent |-> NIL]

\* the memory before anything was inserted
EmptyMem ==
    [h |-> [n \in NodeOrNil |-> _nil], root |-> NIL, count |-> 0,
     owner |-> [n \in Nodes |-> "caller"], relCount |-> [n \in Nodes |-> 0],
     nilw |-> FALSE, rel |-> <<>>, visited |-> <<>>, uaf |-> {}, wild |-> {},
     pc |-> "run", junk |-> Kept, stale |-> <<>>, usedStale |-> FALSE,
     stole |-> FALSE]

\* the memory a step of a thread works on
ConcMem == [Mem(Kept, <<>>) EXCEPT !.h = h]

ConcStore(m) ==
    /\ h' = m.h
    /\ root' = m.root
    /\ count' = m.count
    /\ owner' = m.owner
    /\ relCount' = m.relCount
    /\ nilw' = m.nilw
    /\ last' = [last EXCEPT !.uaf = @ \cup m.uaf]
    /\ UNCHANGED <<inited, keys>>

\* the tree a single thread builds by inserting the keys of s in turn
RECURSIVE insert_all(_, _)
insert_all(m, s) ==
    IF s = <<>> THEN m
    ELSE With([m1 \in {aatree_insert(m, KeyOf(Head(s)), Head(s))} |->
           insert_all(m1, Tail(s))])

InsertOrders ==
    {s \in UNION {[1..k -> InitialKeys] : k \in 0..ConcKeys} :
        \A i, j \in 1..Len(s) : i # j => s[i] # s[j]}

InitConc ==
    \E s \in InsertOrders :
     \E m \in {insert_all(EmptyMem, s)} :
          /\ h = m.h
          /\ root = m.root
          /\ count = m.count
          /\ owner = m.owner
          /\ relCount = m.relCount
          /\ nilw = m.nilw
          /\ inited = TRUE
          /\ keys = {s[i] : i \in 1..Len(s)}
          /\ last = NoOp
          /\ th = [t \in Threads |-> Idle]

Top(t) == th[t].stack[Len(th[t].stack)]
Pop(stack) == SubSeq(stack, 1, Len(stack) - 1)
\* where a frame's return leads: to the caller's store, or to aatree_remove's
AfterReturn(stack) == IF Len(stack) = 1 THEN "setroot" ELSE "link"

\* insert_sub returns into insert_sub (the caller relinks) or aatree_insert
AfterInsertSub(stack) == IF Len(stack) = 1 THEN "i_setroot" ELSE "i_link"

\* tree->rw_lock: held for writing between pthread_rwlock_wrlock and
\* pthread_rwlock_unlock of aatree_insert, for reading between
\* pthread_rwlock_rdlock and pthread_rwlock_unlock of aatree_search
WritePcs == {"i_enter", "i_link", "i_acquire", "i_claim", "i_fix", "i_release",
             "i_setroot", "i_unlock", "abort"}
ReadPcs == {"s_step", "s_unlock"}
\* a lock that never excludes
WriteLocked_never == FALSE

WriteLocked == \E u \in Threads : th[u].pc \in WritePcs
ReadLocked == \E u \in Threads : th[u].pc \in ReadPcs

\* operations a thread runs one after the other in the runs of SpecIS
MaxOps == 2

(* aatree_insert *)
\* aatree_insert, line 473: node_atomic_set_state(node, Open), on a payload
\* object the caller owns and no other thread is inserting (an object whose
\* insert returned without linking it, the key being there already, stands
\* for a new object with that key)
InsertCall(t, node) ==
    /\ th[t].pc = "idle" /\ th[t].op \in {"none", "insert"}
    /\ owner[node] = "caller"
    /\ \A u \in Threads : th[u].pc \in {"idle", "done"} \/ th[u].node # node
    /\ \E mem \in {ConcMem} : ConcStore(node_atomic_set_state(mem, node, "Open"))
    /\ th' = [th EXCEPT ![t].pc = "i_lock", ![t].op = "insert",
                        ![t].key = KeyOf(node), ![t].node = node]

\* an aatree_insert that enters without waiting for the lock
InsertLock_unguarded(t) ==
    /\ th[t].pc = "i_lock"
    /\ th' = [th EXCEPT ![t].pc = "i_enter",
                        ![t].stack = <<[cur |-> root, dir |-> "none", child |-> NIL]>>]
    /\ UNCHANGED <<h, root, count, inited, owner, relCount, nilw, keys, last>>

\* lines 476-480: pthread_rwlock_wrlock, then the first load of tree->root
InsertLock(t) ==
    /\ th[t].pc = "i_lock"
    /\ ~WriteLocked /\ ~ReadLocked
    /\ th' = [th EXCEPT ![t].pc = "i_enter",
                        ![t].stack = <<[cur |-> root, dir |-> "none", child |-> NIL]>>]
    /\ UNCHANGED <<h, root, count, inited, owner, relCount, nilw, keys, last>>

\* insert_sub, lines 387-465 up to the recursive call: at NIL the landing
\* (when the claim of prev fails, NIL is returned through every frame and
\* aatree_insert loads tree->root again, lines 478-485); at a node the
\* compare, the load of the child and the call, or the return of the node
\* that holds the key
InsertEnter(t) ==
    /\ th[t].pc = "i_enter"
    /\ \E current \in {Top(t).cur}, mem \in {ConcMem} :
         IF current = NIL
         THEN \E prev \in {IF Len(th[t].stack) > 1
                           THEN th[t].stack[Len(th[t].stack) - 1].cur ELSE NIL} :
              \E land \in {insert_sub(mem, NIL, prev, th[t].key, th[t].node)} :
                /\ ConcStore(land.m)
                /\ IF land.ret = NIL
                   THEN th' = [th EXCEPT ![t].stack =
                                 <<[cur |-> land.m.root, dir |-> "none", child |-> NIL]>>,
                                         ![t].retried = TRUE]
                   ELSE th' = [th EXCEPT ![t].pc = AfterInsertSub(th[t].stack),
                                         ![t].ret = land.ret,
                                         ![t].stack = Pop(@),
                                         ![t].acquired = IF prev = NIL THEN <<>> ELSE <<prev>>]
         ELSE \E cmp \in {my_node_cmp(th[t].key, current)} :
              \E child \in {IF cmp > 0 THEN node_atomic_get_right(mem, current)
                             ELSE node_atomic_get_left(mem, current)} :
                /\ ConcStore(Touch(mem, {current}))
                /\ IF cmp = 0
                   THEN th' = [th EXCEPT ![t].pc = AfterInsertSub(th[t].stack),
                                         ![t].ret = current,
                                         ![t].stack = Pop(@)]
                   ELSE IF child = current
                   THEN th' = [th EXCEPT ![t].pc = "abort"]
                   ELSE th' = [th EXCEPT
                          ![t].stack = Append(
                              [@ EXCEPT ![Len(@)].dir = IF cmp > 0 THEN "right" ELSE "left",
                                        ![Len(@)].child = child],
                              [cur |-> child, dir |-> "none", child |-> NIL])]

\* insert_sub, lines 434-437 and 457-460: the subtree the callee returned is
\* stored in current when it is not the child loaded before the call
InsertLink(t) ==
    /\ th[t].pc = "i_link"
    /\ \E f \in {Top(t)}, tmp \in {th[t].ret}, mem \in {ConcMem} :
       \E after \in {IF tmp # f.child
                     THEN With([m1 \in {IF f.dir = "right"
                                        THEN node_atomic_set_right(mem, f.cur, tmp)
                                        ELSE node_atomic_set_left(mem, f.cur, tmp)} |->
                            node_atomic_set_parent(m1, tmp, f.cur)])
                     ELSE mem} :
         ConcStore(after)
    /\ th' = [th EXCEPT ![t].pc = "i_acquire"]

\* rebalance_on_insert, line 312: the loads of rebalancing_acquire
InsertAcquire(t) ==
    /\ th[t].pc = "i_acquire"
    /\ \E mem \in {ConcMem} : \E cand \in {neighbourhood(mem, Top(t).cur)} :
          /\ ConcStore(Touch(mem, loaded(cand)))
          /\ th' = [th EXCEPT ![t].pc = "i_claim", ![t].cand = cand]

\* the claims of rebalancing_acquire, and the loop of lines 311-314: on
\* failure what was claimed is released and the loads are made again
InsertClaim(t) ==
    /\ th[t].pc = "i_claim"
    /\ \E mem \in {ConcMem} :
       \E a \in {acquire_from(mem, th[t].cand, 1, <<>>, "Insert")} :
          /\ ConcStore(a.m)
          /\ IF a.ret
             THEN th' = [th EXCEPT ![t].pc = "i_fix", ![t].acquired = a.acquired,
                                   ![t].unwound = <<>>]
             ELSE th' = [th EXCEPT ![t].pc = "i_acquire", ![t].acquired = <<>>,
                                   ![t].unwound = a.acquired]

\* rebalance_on_insert, lines 317-318: skew, then split
InsertFix(t) ==
    /\ th[t].pc = "i_fix"
    /\ \E mem \in {ConcMem} :
       \E skewed \in {skew(mem, Top(t).cur)} :
       \E new_head \in {split(skewed.m, skewed.ret)} :
          /\ ConcStore(new_head.m)
          /\ th' = [th EXCEPT ![t].pc = "i_release", ![t].ret = new_head.ret]

\* a return that leaves the claimed nodes claimed
InsertRelease_nothing(t) ==
    /\ th[t].pc = "i_release"
    /\ th' = [th EXCEPT ![t].pc = AfterInsertSub(th[t].stack),
                        ![t].stack = Pop(@),
                        ![t].acquired = <<>>,
                        ![t].cand = <<>>,
                        ![t].unwound = <<>>]
    /\ UNCHANGED <<h, root, count, inited, owner, relCount, nilw, keys, last>>

\* rebalance_on_insert, lines 321-323, and the return of insert_sub
InsertRelease(t) ==
    /\ th[t].pc = "i_release"
    /\ \E mem \in {ConcMem} :
       \E after \in {rebalancing_release(mem, th[t].acquired)} :
         ConcStore(after)
    /\ th' = [th EXCEPT ![t].pc = AfterInsertSub(th[t].stack),
                        ![t].stack = Pop(@),
                        ![t].acquired = <<>>,
                        ![t].cand = <<>>,
                        ![t].unwound = <<>>]

\* aatree_insert, line 488: the store of the new root
InsertSetRoot(t) ==
    /\ th[t].pc = "i_setroot"
    /\ \E mem \in {ConcMem} : ConcStore([mem EXCEPT !.root = th[t].ret])
    /\ th' = [th EXCEPT ![t].pc = "i_unlock"]

\* aatree_insert, line 492: pthread_rwlock_unlock, and the return
InsertUnlock(t) ==
    /\ th[t].pc = "i_unlock"
    /\ th' = [th EXCEPT ![t].pc = "done"]
    /\ keys' = keys \cup {th[t].key}
    /\ UNCHANGED <<h, root, count, inited, owner, relCount, nilw, last>>

(* aatree_search *)
\* the call; present tells whether the key was in the tree before the
\* threads started or put in by an aatree_insert that has returned
SearchCall(t, value) ==
    /\ th[t].pc = "idle" /\ th[t].op \in {"none", "search"}
    /\ th' = [th EXCEPT ![t].pc = "s_lock", ![t].op = "search", ![t].key = value,
                        ![t].present = value \in keys]
    /\ UNCHANGED <<h, root, count, inited, owner, relCount, nilw, keys, last>>

\* a search that does not wait for the writer
SearchLock_unguarded(t) ==
    /\ th[t].pc = "s_lock"
    /\ th' = [th EXCEPT ![t].pc = "s_step",
                        ![t].stack = <<[cur |-> root, dir |-> "none"]>>]
    /\ UNCHANGED <<h, root, count, inited, owner, relCount, nilw, keys, last>>

\* lines 637-639: pthread_rwlock_rdlock, then the load of tree->root
SearchLock(t) ==
    /\ th[t].pc = "s_lock"
    /\ ~WriteLocked
    /\ th' = [th EXCEPT ![t].pc = "s_step",
                        ![t].stack = <<[cur |-> root, dir |-> "none"]>>]
    /\ UNCHANGED <<h, root, count, inited, owner, relCount, nilw, keys, last>>

\* lines 642-652: one turn of the descent loop
SearchStep(t) ==
    /\ th[t].pc = "s_step"
    /\ \E current \in {Top(t).cur}, mem \in {ConcMem} :
       \E cmp \in {IF current = NIL THEN 0 ELSE my_node_cmp(th[t].key, current)} :
          /\ ConcStore(Touch(mem, {current}))
          /\ IF current = NIL
             THEN th' = [th EXCEPT ![t].pc = "s_unlock", ![t].ret = NULL,
                                   ![t].stack = <<>>]
             ELSE IF cmp = 0
             THEN th' = [th EXCEPT ![t].pc = "s_unlock", ![t].ret = current,
                                   ![t].stack = <<>>]
             ELSE th' = [th EXCEPT ![t].stack =
                    <<[cur |-> IF cmp > 0 THEN node_atomic_get_right(mem, current)
                               ELSE node_atomic_get_left(mem, current),
                       dir |-> "none"]>>]

\* lines 649-650 and 654-655: pthread_rwlock_unlock, and the return
SearchUnlock(t) ==
    /\ th[t].pc = "s_unlock"
    /\ th' = [th EXCEPT ![t].pc = "done"]
    /\ UNCHANGED <<h, root, count, inited, owner, relCount, nilw, keys, last>>

\* the next turn of the loop of insert_thread_func or search_thread_func: a
\* thread makes calls of one kind
Again(t) ==
    /\ th[t].pc = "done"
    /\ th[t].ops + 1 < MaxOps
    /\ th' = [th EXCEPT ![t] = [Idle EXCEPT !.op = th[t].op, !.ops = th[t].ops + 1]]
    /\ UNCHANGED <<h, root, count, inited, owner, relCount, nilw, keys, last>>

(* aatree_remove *)
\* aatree_remove(tree, value): the argument tree->root is loaded
RemoveCall(t, value) ==
    /\ th[t].pc = "idle"
    /\ th' = [th EXCEPT ![t].pc = "enter", ![t].op = "remove", ![t].key = value,
                        ![t].stack = <<[cur |-> root, dir |-> "none"]>>]
    /\ UNCHANGED <<h, root, count, inited, owner, relCount, nilw, keys, last>>

\* remove_sub, lines 550-559: not found, or compare and load the child
RemoveEnter(t) ==
    /\ th[t].pc = "enter"
    /\ \E current \in {Top(t).cur}, cmp \in {my_node_cmp(th[t].key, Top(t).cur)},
          mem \in {ConcMem} :
          /\ ConcStore(Touch(mem, {current}))
          /\ IF current = NIL
             THEN th' = [th EXCEPT ![t].pc = AfterReturn(th[t].stack),
                                   ![t].ret = current,
                                   ![t].stack = Pop(@)]
             ELSE IF cmp = 0
             THEN th' = [th EXCEPT ![t].pc = "drop"]
             ELSE th' = [th EXCEPT
                    ![t].stack = Append(
                        [@ EXCEPT ![Len(@)].dir = IF cmp > 0 THEN "right" ELSE "left"],
                        [cur |-> IF cmp > 0 THEN node_atomic_get_right(mem, current)
                                 ELSE node_atomic_get_left(mem, current),
                         dir |-> "none"])]

\* remove_sub, line 561, drop_this_node up to *new = *old (lines 515-533)
RemoveDrop(t) ==
    /\ th[t].pc = "drop"
    /\ \E mem \in {ConcMem} : \E d \in {take_place(mem, Top(t).cur)} :
          /\ d.m.pc = "run"
          /\ ConcStore(d.m)
          /\ th' = [th EXCEPT ![t].pc = "free",
                              ![t].node = Top(t).cur,
                              ![t].stack[Len(th[t].stack)].cur = d.new]

\* drop_this_node, lines 535-539: the release callback and the load of
\* tree->count
RemoveFree(t) ==
    /\ th[t].pc = "free"
    /\ \E mem \in {ConcMem} : ConcStore(release_cb(mem, th[t].node))
    /\ th' = [th EXCEPT ![t].pc = "count", ![t].old_count = count]

\* drop_this_node, lines 540-542: the store of old_count - 1, and the return
RemoveCount(t) ==
    /\ th[t].pc = "count"
    /\ \E mem \in {ConcMem} : ConcStore([mem EXCEPT !.count = th[t].old_count - 1])
    /\ th' = [th EXCEPT ![t].pc = "acquire", ![t].old_count = 0]

\* remove_sub, lines 556 and 559: the store of the subtree the callee returned
RemoveLink(t) ==
    /\ th[t].pc = "link"
    /\ \E mem \in {ConcMem} :
       \E after \in {IF Top(t).dir = "right"
                     THEN node_atomic_set_right(mem, Top(t).cur, th[t].ret)
                     ELSE node_atomic_set_left(mem, Top(t).cur, th[t].ret)} :
         ConcStore(after)
    /\ th' = [th EXCEPT ![t].pc = "acquire"]

\* rebalance_on_remove, lines 330 and 338-343: the loads of rebalancing_acquire;
\* for NIL no acquisition is made and the `acquired` array, declared at line
\* 330 without an initialiser, keeps whatever it held
RemoveAcquire(t) ==
    /\ th[t].pc = "acquire"
    /\ \E mem \in {ConcMem}, x \in {Top(t).cur} :
         IF x = NIL
         THEN /\ ConcStore(mem)
              /\ \E stale \in StaleArrays :
                   th' = [th EXCEPT ![t].pc = "fix", ![t].acquired = stale,
                                    ![t].cand = <<>>, ![t].unwound = <<>>]
         ELSE \E cand \in {neighbourhood(mem, x)} :
              /\ ConcStore(Touch(mem, loaded(cand)))
              /\ th' = [th EXCEPT ![t].pc = "claim", ![t].cand = cand]

\* the claims of rebalancing_acquire, when all of them succeed
RemoveClaim(t) ==
    /\ th[t].pc = "claim"
    /\ \E mem \in {ConcMem} :
       \E a \in {acquire_from(mem, th[t].cand, 1, <<>>, "Open")} :
          /\ a.ret
          /\ ConcStore(a.m)
          /\ th' = [th EXCEPT ![t].pc = "fix", ![t].acquired = a.acquired,
                              ![t].unwound = <<>>]

\* the claims of rebalancing_acquire, when one fails: what was claimed is
\* released, and the loop of lines 339-342 makes the loads again
RemoveRetry(t) ==
    /\ th[t].pc = "claim"
    /\ \E mem \in {ConcMem} :
       \E a \in {acquire_from(mem, th[t].cand, 1, <<>>, "Open")} :
          /\ ~a.ret
          /\ ConcStore(a.m)
          /\ th' = [th EXCEPT ![t].pc = "acquire", ![t].unwound = a.acquired]

\* rebalance_on_remove, lines 345-372
RemoveFix(t) ==
    /\ th[t].pc = "fix"
    /\ \E mem \in {ConcMem} : \E r \in {level_fix(mem, Top(t).cur)} :
          /\ ConcStore(r.m)
          /\ th' = [th EXCEPT ![t].pc = "release", ![t].ret = r.ret]

\* a return of rebalance_on_remove that leaves the claimed nodes claimed
RemoveRelease_nothing(t) ==
    /\ th[t].pc = "release"
    /\ th' = [th EXCEPT ![t].pc = AfterReturn(th[t].stack),
                        ![t].stack = Pop(@),
                        ![t].acquired = <<>>,
                        ![t].cand = <<>>,
                        ![t].unwound = <<>>]
    /\ UNCHANGED <<h, root, count, inited, owner, relCount, nilw, keys, last>>

\* rebalance_on_remove, lines 374-376, and the return of remove_sub
RemoveRelease(t) ==
    /\ th[t].pc = "release"
    /\ \E mem \in {ConcMem} :
       \E after \in {rebalancing_release(mem, th[t].acquired)} :
         ConcStore(after)
    /\ th' = [th EXCEPT ![t].pc = AfterReturn(th[t].stack),
                        ![t].stack = Pop(@),
                        ![t].acquired = <<>>,
                        ![t].cand = <<>>,
                        ![t].unwound = <<>>]

\* aatree_remove: tree->root = the subtree remove_sub returned
RemoveSetRoot(t) ==
    /\ th[t].pc = "setroot"
    /\ \E mem \in {ConcMem} : ConcStore([mem EXCEPT !.root = th[t].ret])
    /\ th' = [th EXCEPT ![t].pc = "done"]

\* the steps of aatree_insert and aatree_search
StepIS(t) ==
    \/ \E node \in Nodes : InsertCall(t, node)
    \/ InsertLock(t)
    \/ InsertEnter(t)
    \/ InsertLink(t)
    \/ InsertAcquire(t)
    \/ InsertClaim(t)
    \/ InsertFix(t)
    \/ InsertRelease(t)
    \/ InsertSetRoot(t)
    \/ InsertUnlock(t)
    \/ \E value \in Keys : SearchCall(t, value)
    \/ SearchLock(t)
    \/ SearchStep(t)
    \/ SearchUnlock(t)

\* the steps of aatree_remove
StepRemove(t) ==
    \/ \E value \in Keys : RemoveCall(t, value)
    \/ RemoveEnter(t)
    \/ RemoveDrop(t)
    \/ RemoveFree(t)
    \/ RemoveCount(t)
    \/ RemoveLink(t)
    \/ RemoveAcquire(t)
    \/ RemoveClaim(t)
    \/ RemoveRetry(t)
    \/ RemoveFix(t)
    \/ RemoveRelease(t)
    \/ RemoveSetRoot(t)

\* threads that insert and search, several operations each
NextIS == \E t \in Threads : StepIS(t) \/ Again(t)

SpecIS == InitConc /\ [][NextIS]_vars

\* the same under a scheduler that lets every thread run
SpecISFair == SpecIS /\ \A t \in Threads : WF_vars(StepIS(t) \/ Again(t))

\* threads that insert, search and remove, one operation each
NextConc == \E t \in Threads : StepIS(t) \/ StepRemove(t)

SpecConc == InitConc /\ [][NextConc]_vars

(* ------------------------- what the claims speak of --------------------- *)
\* the memory of the current state, as a quiescent observer reads it
Cur == Mem(NoJunk, <<>>)

\* the node aatree_search returns for a key in the current state
Found(value) == aatree_search(Cur, value).ret
\* the same in the state a step leads to
FoundAfter(value) == aatree_search(Cur', value).ret

RECURSIVE subtree(_, _, _)
subtree(hh, n, fuel) ==
    IF n = NIL \/ fuel = 0 THEN {}
    ELSE {n} \cup subtree(hh, hh[n].left, fuel - 1) \cup subtree(hh, hh[n].right, fuel - 1)

\* the non-sentinel nodes reachable from the root
Reach == subtree(h, root, NumNodes + 1)

RECURSIVE inorder(_, _, _)
inorder(hh, n, fuel) ==
    IF n = NIL \/ fuel = 0 THEN <<>>
    ELSE inorder(hh, hh[n].left, fuel - 1) \o <<n>> \o inorder(hh, hh[n].right, fuel - 1)

Ascending(s) == \A i \in 1..(Len(s) - 1) : KeyOf(s[i]) < KeyOf(s[i + 1])

Completed == last.pc = "run"
NothingReleased == \A n \in Nodes : relCount[n] = 0

\* C1: as long as nothing was taken out, aatree_search finds a node with the
\* key for every key put in by aatree_insert, and returns NULL for every other
\* key (on the empty tree: for every key).
TheoremC1 ==
    (Completed /\ NothingReleased) =>
        \A k \in Keys :
            IF k \in keys
            THEN Found(k) \in Nodes /\ my_node_cmp(k, Found(k)) = 0
            ELSE Found(k) = NULL

WitnessC1 ==
    /\ Completed /\ NothingReleased
    /\ last.op = "insert"
    /\ keys = Keys
    /\ \A k \in Keys : Found(k) \in Nodes

\* C2: after every completed operation the tree is an AA-tree: keys ascend
\* strictly in order, a left child is one level below its parent, a right
\* child is at its parent's level or one below, and no right-right grandchild
\* is at the level of its grandparent.
TheoremC2 ==
    Completed =>
        /\ Ascending(inorder(h, root, NumNodes + 1))
        /\ \A n \in Reach :
            /\ h[h[n].left].level = h[n].level - 1
            /\ h[h[n].right].level \in {h[n].level, h[n].level - 1}
            /\ h[h[h[n].right].right].level # h[n].level

WitnessC2 ==
    /\ Completed
    /\ last.op = "remove" /\ last.stole
    /\ h[root].level = 2
    /\ Cardinality(Reach) = 4

\* C3: a completed aatree_remove of a key that is in the tree takes exactly
\* that key out: it is not found afterwards, and every other key is found in
\* the node it was found in before.
TheoremC3 ==
    [][(last'.op = "remove" /\ last'.arg # NIL /\ last'.pc = "run") =>
          /\ Found(last'.arg) \in Nodes
          /\ FoundAfter(last'.arg) = NULL
          /\ {KeyOf(n) : n \in Reach}' = {KeyOf(n) : n \in Reach} \ {last'.arg}
          /\ \A j \in Keys \ {last'.arg} : FoundAfter(j) = Found(j)]_vars

WitnessC3 ==
    /\ Completed
    /\ last.op = "remove" /\ last.arg # NIL /\ last.stole
    /\ Cardinality(Reach) >= 3

\* C4: after every completed operation count is the number of nodes
\* reachable from the root, which is the number of keys put in and not taken
\* out.
TheoremC4 ==
    Completed => (count = Cardinality(Reach) /\ count = Cardinality(keys))

WitnessC4 ==
    /\ Completed
    /\ last.op = "remove" /\ last.arg # NIL
    /\ count = 3
    /\ \E n \in Nodes : owner[n] = "caller" /\ KeyOf(n) \notin keys

\* C5: a completed aatree_insert of a key that is in the tree changes neither
\* count, nor the root, nor the reachable nodes, nor a child link or level of
\* one of them; the key is still found in the node that held it, and the new
\* node is not reachable.
TheoremC5 ==
    [][(last'.op = "insert" /\ last'.pc = "run" /\ KeyOf(last'.arg) \in keys) =>
          /\ count' = count
          /\ root' = root
          /\ Reach' = Reach
          /\ \A n \in Reach : /\ h'[n].left = h[n].left
                              /\ h'[n].right = h[n].right
                              /\ h'[n].level = h[n].level
          /\ FoundAfter(KeyOf(last'.arg)) = Found(KeyOf(last'.arg))
          /\ Found(KeyOf(last'.arg)) \in Nodes \ {last'.arg}
          /\ last'.arg \notin Reach']_vars

WitnessC5 ==
    /\ Completed
    /\ last.op = "insert"
    /\ owner[last.arg] = "caller"
    /\ KeyOf(last.arg) \in keys
    /\ count >= 3

\* C6: a completed aatree_remove of a key that is not in the tree changes
\* nothing: root, count, and every field of every node are as before, and the
\* release callback is not called.
TheoremC6 ==
    [][(last'.op = "remove" /\ last'.arg = NIL /\ last'.pc = "run") =>
          /\ root' = root
          /\ count' = count
          /\ h' = h
          /\ owner' = owner
          /\ relCount' = relCount
          /\ last'.rel = <<>>]_vars

WitnessC6 ==
    /\ Completed
    /\ last.op = "remove" /\ last.arg = NIL
    /\ count >= 3

\* C7: no operation accesses a field of a node after the release callback
\* was called on it.
CounterexampleC7 == last.uaf = {}

\* C8: the release callback is called exactly once by a completed
\* aatree_remove of a key in the tree, on the node that held the key, and not
\* at all by init, insert, search, walk or the remove of an absent key.
TheoremC8 ==
    [][last'.pc = "run" =>
          /\ (last'.op = "remove" /\ last'.arg # NIL) =>
                /\ last'.rel = <<Found(last'.arg)>>
                /\ relCount' = [relCount EXCEPT ![Found(last'.arg)] = 1]
          /\ (last'.op \in {"init", "insert", "search", "walk"}
                \/ (last'.op = "remove" /\ last'.arg = NIL)) =>
                /\ last'.rel = <<>>
                /\ relCount' = relCount]_vars

WitnessC8 ==
    /\ Completed
    /\ last.op = "remove" /\ last.stole
    /\ Len(last.rel) = 1
    /\ KeyOf(last.rel[1]) = last.arg

Pos(s, x) == CHOOSE i \in 1..Len(s) : s[i] = x

\* C9: aatree_destroy calls the release callback once on each reachable node
\* and on nothing else, on a node only after every node of its two subtrees,
\* reads no released node, and leaves root = NIL and count = 0.
TheoremC9 ==
    [][last'.op = "destroy" =>
          /\ last'.pc = "run"
          /\ Len(last'.rel) = Cardinality(Reach)
          /\ {last'.rel[i] : i \in 1..Len(last'.rel)} = Reach
          /\ \A n \in Reach :
               \A c \in subtree(h, h[n].left, NumNodes) \cup subtree(h, h[n].right, NumNodes) :
                  Pos(last'.rel, c) < Pos(last'.rel, n)
          /\ \A n \in Nodes : relCount'[n] = relCount[n] + (IF n \in Reach THEN 1 ELSE 0)
          /\ last'.uaf = {}
          /\ root' = NIL
          /\ count' = 0]_vars

WitnessC9 ==
    /\ last.op = "destroy"
    /\ Len(last.rel) = MaxKey
    /\ root = NIL /\ count = 0

\* C10, for operations that run one at a time (under Spec): the sentinel
\* keeps its content in every state, and no operation stores to it or claims
\* it.
SeqC10 == h[NIL] = _nil /\ ~nilw

\* C10: in every state of every interleaving of operations the sentinel keeps
\* its content, and no operation stores to it or claims it (here: as long as
\* no thread accessed a released node, so that every value read is defined).
CounterexampleC10 == last.uaf = {} => (nilw = FALSE /\ h[NIL] = _nil)

\* the nodes the visitor of aatree_walk is called on, in the order of the calls
Visited(wtype) == aatree_walk(Cur, wtype, "visitor").visited

Once(s, S) ==
    /\ Len(s) = Cardinality(S)
    /\ {s[i] : i \in 1..Len(s)} = S

Children(n) == {h[n].left, h[n].right} \ {NIL}

\* C15: aatree_walk calls the visitor exactly once on each node reachable from
\* the root: in order, with strictly ascending keys; pre-order, on a node
\* before its children; post-order, on a node after its children.
TheoremC15 ==
    Completed =>
        /\ \A v \in {Visited("AA_WALK_IN_ORDER")} :
              Once(v, Reach) /\ Ascending(v)
        /\ \A v \in {Visited("AA_WALK_PRE_ORDER")} :
              /\ Once(v, Reach)
              /\ \A n \in Reach : \A c \in Children(n) : Pos(v, n) < Pos(v, c)
        /\ \A v \in {Visited("AA_WALK_POST_ORDER")} :
              /\ Once(v, Reach)
              /\ \A n \in Reach : \A c \in Children(n) : Pos(v, c) < Pos(v, n)

WitnessC15 ==
    /\ Completed
    /\ last.op = "walk"
    /\ Cardinality(Reach) = MaxKey
    /\ Len(Visited("AA_WALK_POST_ORDER")) = MaxKey

\* C16: aatree_search (key found or not) and aatree_walk with a visitor that
\* stores nothing leave the root, the count and every field of every node,
\* the state included, as they were.
TheoremC16 ==
    [][last'.op \in {"search", "walk"} =>
          /\ last'.pc = "run"
          /\ h' = h
          /\ root' = root
          /\ count' = count
          /\ owner' = owner
          /\ nilw' = nilw]_vars

WitnessC16 ==
    /\ last.op = "search"
    /\ Cardinality(Reach) >= 3
    /\ \E k \in Keys : Found(k) = NULL

\* check_sub of the test program: TRUE where it returns OK
RECURSIVE check_sub(_, _, _)
check_sub(hh, node, fuel) ==
    IF node = NIL \/ fuel = 0 THEN TRUE
    ELSE LET cmp_left == IF hh[node].left # NIL
                         THEN KeyOf(node) - KeyOf(hh[node].left) ELSE 0
             cmp_right == IF hh[node].right # NIL
                          THEN KeyOf(node) - KeyOf(hh[node].right) ELSE 0
         IN /\ hh[node].level = hh[hh[node].left].level + 1
            /\ \/ hh[node].level = hh[hh[node].right].level + 1
               \/ /\ hh[node].level = hh[hh[node].right].level
                  /\ hh[hh[node].right].level # hh[hh[node].right].level + 1
            /\ ~(cmp_left < 0)
            /\ ~(cmp_right > 0)
            /\ check_sub(hh, hh[node].left, fuel - 1)
            /\ check_sub(hh, hh[node].right, fuel - 1)

check == check_sub(h, root, NumNodes + 1)

\* no thread is inside an operation
Joined == \A t \in Threads : th[t].pc \in {"idle", "done"}

\* C11: whenever every thread of a run of concurrent aatree_insert calls is
\* outside its calls, aatree_search finds a node with the key for every key
\* that was inserted, count is the number of those keys, and check passes and
\* the keys ascend in order.
TheoremC11 ==
    Joined =>
        /\ \A k \in keys : Found(k) \in Nodes /\ my_node_cmp(k, Found(k)) = 0
        /\ count = Cardinality(keys)
        /\ check
        /\ Ascending(inorder(h, root, NumNodes + 1))

WitnessC11 ==
    /\ \A t \in Threads : th[t].pc = "done" /\ th[t].op = "insert" /\ th[t].ops = MaxOps - 1
    /\ th[1].key # th[2].key
    /\ keys = Keys
    /\ count = MaxKey

\* every thread has made all its calls
AllDone == \A t \in Threads : th[t].pc = "done" /\ th[t].ops = MaxOps - 1

\* C12: while other threads insert, an aatree_search for a key that was in
\* the tree when the search was called returns a node with that key, never
\* NULL; no thread touches released memory or stops in abort(), and under a
\* scheduler that lets every thread run all threads finish their calls.
TheoremC12 ==
    /\ [](\A t \in Threads :
            /\ (th[t].op = "search" /\ th[t].present /\ th[t].pc \in {"s_unlock", "done"})
                  => (th[t].ret \in Nodes /\ my_node_cmp(th[t].key, th[t].ret) = 0)
            /\ th[t].pc # "abort")
    /\ [](last.uaf = {})
    /\ <>[]AllDone

WitnessC12 ==
    \E t, u \in Threads :
        /\ th[t].op = "search" /\ th[t].present /\ th[t].pc = "s_unlock"
        /\ th[t].ret \in Nodes
        /\ th[u].op = "insert" /\ th[u].pc = "i_lock" /\ th[u].ops = 1
        /\ Cardinality(Reach) >= 4

\* C14: when the threads run inserts and searches under a scheduler that
\* lets every thread run, every aatree_insert that was called returns: its
\* wait for the lock, its retry loop and the acquisition loop of
\* rebalance_on_insert all come to an end.
TheoremC14 ==
    \A t \in Threads :
        (th[t].op = "insert" /\ th[t].pc \notin {"idle", "done"})
            ~> (th[t].op = "insert" /\ th[t].pc = "done")

WitnessC14 ==
    \E t, u \in Threads :
        /\ th[t].op = "insert" /\ th[t].pc = "done" /\ th[t].ops = 1
        /\ h[th[t].node].parent # NIL
        /\ th[u].op = "insert" /\ th[u].pc = "i_lock"
        /\ h[root].level >= 2

\* the nodes a thread has claimed and not released
Held(t) == {th[t].acquired[i] : i \in 1..Len(th[t].acquired)}

\* the acquisition loop of rebalance_on_remove is closed for t: the claims on
\* the nodes it loaded fail, what they claimed is released, and the next
\* loads give the same nodes
Retrying(t) ==
    /\ th[t].pc = "claim"
    /\ \A m \in {ConcMem} :
          /\ \A a \in {acquire_from(m, th[t].cand, 1, <<>>, "Open")} :
                ~a.ret /\ a.m.h = h
          /\ neighbourhood(m, Top(t).cur) = th[t].cand

\* C13: no state has an operation in flight that can never complete: a
\* thread whose acquisition loop is closed while every other thread has
\* returned from its operation (released memory left alone).
CounterexampleC13 ==
    ~(\E t \in Threads :
        /\ Retrying(t)
        /\ \A u \in Threads \ {t} : th[u].pc = "done"
        /\ last.uaf = {})

\* C17: a step of one thread leaves the state field of every node that
\* another thread has claimed and not released as it was (released memory
\* left alone).
CounterexampleC17 ==
    [][\A t \in Threads : \A n \in Held(t) :
          (th'[t] = th[t] /\ last'.uaf = {}) => h'[n].state = h[n].state]_vars

\* the fields that place a node in the tree
Links(r) == <<r.left, r.right, r.parent, r.level>>

\* a node of the tree that is not the leaf an insert in flight is linking
Linked(n) ==
    /\ owner[n] = "tree"
    /\ \A u \in Threads : ~(th[u].op = "insert" /\ th[u].node = n /\ th[u].pc # "done")

\* C18: when a thread relinks a subtree while insert_sub or remove_sub
\* unwinds, or drops a node (splice, steal of the successor, copy into the
\* successor), every linked node whose left, right, parent or level it
\* changes is one it has claimed, in state Insert or Balancing.
CounterexampleC18 ==
    [][\A t \in Threads :
          (th[t].pc \in {"i_link", "link", "drop"} /\ th'[t] # th[t]) =>
              \A n \in Nodes :
                  (Linked(n) /\ Links(h'[n]) # Links(h[n])) =>
                      (n \in Held(t) /\ h[n].state \in {"Insert", "Balancing"})]_vars

\* C19: the step of rebalance_on_insert or rebalance_on_remove that runs
\* skew, split and the level fix-up changes left, right, parent or level only
\* of nodes its thread claimed in the acquisition before (released memory
\* left alone).
CounterexampleC19 ==
    [][\A t \in Threads :
          (th[t].pc \in {"i_fix", "fix"} /\ th'[t] # th[t] /\ last'.uaf = {}) =>
              \A n \in Nodes : Links(h'[n]) # Links(h[n]) => n \in Held(t)]_vars

\* the non-sentinel nodes among the loads of rebalancing_acquire
Around(m, x) == {neighbourhood(m, x)[i] : i \in 1..8} \ {NIL}

\* C20: in the state the last claim of a successful rebalancing_acquire(x)
\* leads to, the nodes the thread holds are x, its parent, grandparent,
\* children and the listed grandchildren as the tree then has them (released
\* memory left alone).
CounterexampleC20 ==
    [][\A t \in Threads :
          (/\ th[t].pc \in {"claim", "i_claim"}
           /\ th'[t].pc \in {"fix", "i_fix"}
           /\ last'.uaf = {}) =>
              \A m \in {ConcMem'} : Around(m, Top(t).cur) = Held(t)']_vars

\* the state, besides Open, from which the acquisition of a thread claims
StateFrom(t) == IF th[t].op = "insert" THEN "Insert" ELSE "Open"

SeqSet(s) == {s[i] : i \in 1..Len(s)}

\* C21: a rebalancing_acquire attempt in which a claim fails leaves every node
\* it had claimed (nodes among those it loaded, Open or in the caller's state
\* before) in state Open, the thread holding nothing, and every other node,
\* the sentinel included, and every link and level as they were.
TheoremC21 ==
    [][\A t \in Threads :
          (th[t].pc \in {"claim", "i_claim"} /\ th'[t].pc \in {"acquire", "i_acquire"}) =>
              /\ th'[t].acquired = <<>>
              /\ \A n \in SeqSet(th'[t].unwound) :
                    /\ n \in SeqSet(th[t].cand) \ {NIL}
                    /\ h[n].state \in {"Open", StateFrom(t)}
                    /\ h'[n].state = "Open"
              /\ \A n \in NodeOrNil :
                    /\ Links(h'[n]) = Links(h[n])
                    /\ n \notin SeqSet(th'[t].unwound) => h'[n].state = h[n].state
                    /\ h'[n].state = "Balancing" => h[n].state = "Balancing"]_vars

WitnessC21 ==
    \E t \in Threads :
        /\ th[t].pc \in {"acquire", "i_acquire"}
        /\ Len(th[t].unwound) >= 1
        /\ \E n \in SeqSet(th[t].cand) \ {NIL} : h[n].state # "Open"

\* the nodes the claims of a step of the acquisition turned to Balancing
Claimed(t) == SeqSet(th'[t].acquired) \cup SeqSet(th'[t].unwound)

\* C22, as the spec has it: every node a rebalancing_acquire attempt claims
\* was Open when the attempt claimed it, on the insert side as on the remove
\* side.
CounterexampleC22 ==
    [][\A t \in Threads :
          (th[t].pc \in {"claim", "i_claim"} /\ th'[t] # th[t]) =>
              \A n \in Claimed(t) : h[n].state = "Open"]_vars

\* C22: every node a rebalancing_acquire attempt claims was Open when the
\* attempt claimed it or, in rebalance_on_insert only, in state Insert; a node
\* in state Balancing is never claimed, and rebalance_on_remove never claims
\* a node in state Insert.
TheoremC22 ==
    [][\A t \in Threads :
          (th[t].pc \in {"claim", "i_claim"} /\ th'[t] # th[t]) =>
              \A n \in Claimed(t) :
                  /\ h[n].state # "Balancing"
                  /\ h[n].state = "Insert" => th[t].op = "insert"
                  /\ h'[n].state = IF th'[t].pc \in {"fix", "i_fix"}
                                   THEN "Balancing" ELSE "Open"]_vars

\* after the landing the parent, left in state Insert by insert_sub, has been
\* claimed by rebalance_on_insert together with the new leaf
WitnessC22 ==
    \E t \in Threads :
        /\ th[t].pc = "i_fix"
        /\ h[th[t].node].parent = Top(t).cur
        /\ {Top(t).cur, th[t].node} \subseteq Held(t)
        /\ h[Top(t).cur].state = "Balancing"

\* the size of the acquired array
MAX_ACQUIRED_NODES == 10

\* C23: a rebalancing_acquire attempt never claims the sentinel, claims no
\* node twice and at most MAX_ACQUIRED_NODES nodes; when it succeeds it holds
\* every non-sentinel node it loaded, a node loaded in several roles once;
\* when it fails, it fails on a node that it did not claim itself and that
\* was neither Open nor in the caller's state.
TheoremC23 ==
    [][\A t \in Threads :
          (th[t].pc \in {"claim", "i_claim"} /\ th'[t] # th[t]) =>
              \A got \in {th'[t].acquired \o th'[t].unwound} :
                  /\ NIL \notin SeqSet(got)
                  /\ Len(got) = Cardinality(SeqSet(got))
                  /\ Len(got) <= MAX_ACQUIRED_NODES
                  /\ h'[NIL] = h[NIL]
                  /\ IF th'[t].pc \in {"fix", "i_fix"}
                     THEN SeqSet(got) = SeqSet(th[t].cand) \ {NIL}
                     ELSE \E n \in (SeqSet(th[t].cand) \ {NIL}) \ SeqSet(got) :
                            h[n].state \notin {"Open", StateFrom(t)}]_vars

\* a successful attempt that had loaded one node in two roles
WitnessC23 ==
    \E t \in Threads :
        /\ th[t].pc \in {"fix", "i_fix"}
        /\ th[t].acquired # <<>>
        /\ \E i, j \in 1..Len(th[t].cand) :
              i < j /\ th[t].cand[i] = th[t].cand[j] /\ th[t].cand[i] # NIL

\* the references a thread's step can read a node through
Referenced(hh, r) == {r} \cup {hh[n].left : n \in Nodes} \cup {hh[n].right : n \in Nodes}

\* C24: an insert attempt writes nothing before its landing claim succeeds:
\* every step of the descent, and the step in which the claim fails and
\* insert_sub returns NIL through every frame, leaves tree->root, count,
\* every link, level and state as they were; after the failed claim the new
\* node is still the caller's, no link leads to it, and the next attempt
\* starts at the current tree->root.
TheoremC24 ==
    [][\A t \in Threads :
          (th[t].pc = "i_enter" /\ th'[t].pc = "i_enter" /\ th'[t] # th[t]) =>
              /\ h' = h /\ root' = root /\ count' = count /\ owner' = owner
              /\ (Top(t).cur = NIL) =>
                    /\ th'[t].stack = <<[cur |-> root', dir |-> "none", child |-> NIL]>>
                    /\ owner'[th[t].node] = "caller"
                    /\ th[t].node \notin Referenced(h', root')]_vars

\* a thread in its second attempt after a failed landing claim
WitnessC24 ==
    \E t \in Threads :
        /\ th[t].pc = "i_enter" /\ th[t].retried
        /\ th[t].stack = <<[cur |-> root, dir |-> "none", child |-> NIL]>>
        /\ root # NIL

\* what a structural mutation changes: tree->root and the links and levels
Structure == <<root, [n \in NodeOrNil |-> Links(h[n])]>>

\* C25: in a program of inserts and searches a step changes the structure
\* only inside an insert's locked region (from the first load of tree->root
\* to the unlock, which contains every link, rotation and the root store);
\* while a thread is in that region no other thread is in a search descent
\* or in an insert's locked region, and a search reads a node only while no
\* insert is in its locked region.
TheoremC25 ==
    [][\A t \in Threads :
          (th'[t] # th[t]) =>
              /\ (Structure' # Structure) => th[t].pc \in WritePcs
              /\ (th[t].pc \in WritePcs) =>
                    \A u \in Threads \ {t} : th[u].pc \notin (WritePcs \cup ReadPcs)
              /\ (th[t].pc = "s_step") =>
                    \A u \in Threads \ {t} : th[u].pc \notin WritePcs]_vars

\* an insert that has linked its node and not yet stored the root, while the
\* other thread waits for the lock
WitnessC25 ==
    \E t \in Threads : \E u \in Threads \ {t} :
        /\ th[t].pc \in {"i_acquire", "i_claim", "i_fix", "i_release", "i_link", "i_setroot"}
        /\ owner[th[t].node] = "tree"
        /\ th[t].node \in Referenced(h, NIL)
        /\ th[u].pc \in {"s_lock", "i_lock"}

\* a remove between its first write (drop_this_node) and its return
RemoveMutating(u) ==
    /\ th[u].op = "remove"
    /\ th[u].pc \notin {"idle", "done"}
    /\ th[u].node # NIL

\* C26: a step of aatree_remove that changes tree->root, a link or a level is
\* taken while no other thread is in a search descent, in an insert's locked
\* region or in a remove that has begun to write.
CounterexampleC26 ==
    [][\A t \in Threads :
          (th'[t] # th[t] /\ th[t].op = "remove" /\ Structure' # Structure
             /\ last'.uaf = {}) =>
              \A u \in Threads \ {t} :
                  /\ th[u].pc \notin (WritePcs \cup ReadPcs)
                  /\ ~RemoveMutating(u)]_vars

\* the descent of aatree_search on the links as they are, given up after
\* fuel turns (a descent that does not end finds nothing)
RECURSIVE search_within(_, _, _, _)
search_within(hh, current, value, fuel) ==
    IF current = NIL \/ fuel = 0 THEN NIL
    ELSE IF my_node_cmp(value, current) = 0 THEN current
    ELSE IF my_node_cmp(value, current) > 0
    THEN search_within(hh, hh[current].right, value, fuel - 1)
    ELSE search_within(hh, hh[current].left, value, fuel - 1)

\* every thread has returned from an aatree_insert or an aatree_remove
MutatorsDone == \A t \in Threads : th[t].pc = "done" /\ th[t].op \in {"insert", "remove"}

\* the threads' keys differ, and a remove names a key the tree held
DistinctKeys ==
    /\ \A t, u \in Threads : t # u => th[t].key # th[u].key
    /\ \A t \in Threads : th[t].op = "remove" => th[t].key \in keys

\* the keys the tree should hold: the initial ones (keys holds them, and the
\* key of each insert that returned) and the inserted ones without the
\* removed ones
Expected ==
    (keys \cup {th[t].key : t \in {u \in Threads : th[u].op = "insert"}})
        \ {th[t].key : t \in {u \in Threads : th[u].op = "remove"}}

\* C27: after concurrent inserts and removes of pairwise distinct keys have
\* all returned, a search finds exactly the initial and inserted keys that
\* were not removed, and the structural checker passes.
CounterexampleC27 ==
    (MutatorsDone /\ DistinctKeys /\ last.uaf = {}) =>
        /\ \A k \in Keys : (search_within(h, root, k, NumNodes + 1) # NIL) <=> (k \in Expected)
        /\ check

\* the nodes insert_sub has linked (line 409 counts each once)
LinkedByInsert == {n \in Nodes : owner[n] # "caller"}

\* the removes that detached a node (drop_this_node ran, lines 513-543)
DetachedByRemove == {t \in Threads : th[t].op = "remove" /\ th[t].node # NIL}

\* C28: when no thread is inside a call, count is the number of nodes linked
\* by inserts less the number of nodes detached by removes (stated for calls
\* on distinct keys, so that no node is detached twice).
CounterexampleC28 ==
    (Joined /\ DistinctKeys /\ last.uaf = {}) =>
        count = Cardinality(LinkedByInsert) - Cardinality(DetachedByRemove)

(* ------------- skew and split on the neighbourhoods they read ----------- *)
\* skew and split read x, its parent, its children and two grandchildren, and
\* the levels of three of them. Their inputs are drawn here as search trees
\* over the payload objects with distinct keys, of every shape, with every
\* assignment of levels up to MaxRotLevel, so that every combination of a
\* rotating or non-rotating x with or without a parent and a moved child
\* occurs.
MaxRotLevel == 2

RotNodes == 1..MaxKey

\* node n hung below cur as a search tree leaf, by my_node_cmp
RECURSIVE hang(_, _, _)
hang(hh, cur, n) ==
    IF my_node_cmp(KeyOf(n), cur) > 0
    THEN IF hh[cur].right = NIL
         THEN [hh EXCEPT ![cur].right = n, ![n].parent = cur]
         ELSE hang(hh, hh[cur].right, n)
    ELSE IF hh[cur].left = NIL
         THEN [hh EXCEPT ![cur].left = n, ![n].parent = cur]
         ELSE hang(hh, hh[cur].left, n)

RECURSIVE hang_all(_, _, _)
hang_all(hh, r, s) ==
    IF s = <<>> THEN hh ELSE hang_all(hang(hh, r, Head(s)), r, Tail(s))

RotOrders ==
    {s \in UNION {[1..k -> RotNodes] : k \in 1..MaxKey} :
        \A i, j \in 1..Len(s) : i # j => s[i] # s[j]}

InitRot ==
    \E s \in RotOrders : \E lv \in [RotNodes -> 1..MaxRotLevel] :
     \E shape \in {hang_all([n \in NodeOrNil |-> _nil], Head(s), Tail(s))} :
          /\ h = [n \in NodeOrNil |->
                    IF n \in SeqSet(s) THEN [shape[n] EXCEPT !.level = lv[n]] ELSE _nil]
          /\ root = Head(s)
          /\ count = Len(s)
          /\ owner = [n \in Nodes |-> IF n \in SeqSet(s) THEN "tree" ELSE "caller"]
          /\ relCount = [n \in Nodes |-> 0]
          /\ nilw = FALSE
          /\ inited = TRUE
          /\ keys = {KeyOf(n) : n \in SeqSet(s)}
          /\ last = NoOp
          /\ th = [t \in Threads |-> Idle]

\* the result of one call, kept with its argument and its return value
RotStore(r, op, x) ==
    /\ h' = r.m.h
    /\ nilw' = r.m.nilw
    /\ last' = [last EXCEPT !.op = op, !.arg = x]
    /\ th' = [th EXCEPT ![1].node = x, ![1].ret = r.ret]
    /\ UNCHANGED <<root, count, inited, owner, relCount, keys>>

\* one call skew(x) on a drawn tree, x a linked node or the sentinel
RotSkew(x) ==
    /\ last.op = "init"
    /\ x \in LinkedByInsert \cup {NIL}
    /\ \E m \in {ConcMem} : RotStore(skew(m, x), "skew", x)

\* one call split(x) on a drawn tree, x a linked node or the sentinel
RotSplit(x) ==
    /\ last.op = "init"
    /\ x \in LinkedByInsert \cup {NIL}
    /\ \E m \in {ConcMem} : RotStore(split(m, x), "split", x)

NextRot == \E x \in NodeOrNil : RotSkew(x) \/ RotSplit(x)

SpecRot == InitRot /\ [][NextRot]_vars

\* the postcondition of skew(x) on memory m
SkewPost(m, x) ==
    \E r \in {skew(m, x)}, y \in {m.h[x].left}, x_parent \in {m.h[x].parent} :
    \E moved \in {m.h[y].right} :
        IF x # NIL /\ m.h[x].level = m.h[y].level
        THEN /\ r.ret = y
             /\ r.m.h[y].right = x
             /\ r.m.h[x].left = moved
             /\ r.m.h[y].parent = x_parent
             /\ r.m.h[x].parent = y
             /\ moved # NIL => r.m.h[moved].parent = x
             /\ \A n \in NodeOrNil : r.m.h[n].level = m.h[n].level
        ELSE /\ r.ret = x
             /\ r.m.h = m.h
             /\ r.m.nilw = m.nilw

\* C29: skew(x), applied to any linked node or the sentinel of any drawn tree: when x is not the sentinel and its level is the level of its left
\* child y, it returns y with y.right = x, x.left = y's old right child,
\* y.parent = x's old parent, x.parent = y, the moved child's parent = x when
\* it is a node, and every level as before; otherwise it returns x and
\* changes no field.
TheoremC29 == \A m \in {ConcMem} : \A x \in LinkedByInsert \cup {NIL} : SkewPost(m, x)

\* after a call skew(x) that rotated, with a parent above x and a child
\* moved across
WitnessC29 ==
    /\ last.op = "skew"
    /\ th[1].ret # th[1].node
    /\ h[th[1].ret].right = th[1].node
    /\ h[th[1].ret].parent # NIL
    /\ h[th[1].node].left # NIL

\* the postcondition of split(x) on memory m
SplitPost(m, x) ==
    \E r \in {split(m, x)}, y \in {m.h[x].right}, x_parent \in {m.h[x].parent} :
    \E moved \in {m.h[y].left} :
        IF x # NIL /\ m.h[x].level = m.h[m.h[y].right].level
        THEN /\ r.ret = y
             /\ r.m.h[y].left = x
             /\ r.m.h[x].right = moved
             /\ r.m.h[y].level = m.h[y].level + 1
             /\ r.m.h[y].parent = x_parent
             /\ r.m.h[x].parent = y
             /\ moved # NIL => r.m.h[moved].parent = x
        ELSE /\ r.ret = x
             /\ r.m.h = m.h
             /\ r.m.nilw = m.nilw

\* C30: split(x), applied to any linked node or the sentinel of any drawn tree: when x is not the sentinel and its level is the level of
\* x.right.right, it returns y = x's old right child with y.left = x,
\* x.right = y's old left child, y.level one more than before, y.parent =
\* x's old parent, x.parent = y, and the moved child's parent = x when it is
\* a node; otherwise it returns x and changes no field.
TheoremC30 == \A m \in {ConcMem} : \A x \in LinkedByInsert \cup {NIL} : SplitPost(m, x)

\* after a call split(x) that rotated, with a parent above x and a child
\* moved across
WitnessC30 ==
    /\ last.op = "split"
    /\ th[1].ret # th[1].node
    /\ h[th[1].ret].left = th[1].node
    /\ h[th[1].ret].parent # NIL
    /\ h[th[1].node].right # NIL

(* --------- src/unnamed/part_000: the tree without the tree-wide lock ----- *)
\* atomic_compare_exchange_weak(&node->state, &expected, desired), lines 360-364
\* and 140-196
atomic_compare_exchange_weak(m, node, expected, desired) ==
    IF node_atomic_get_state(m, node) = expected
    THEN [m |-> node_atomic_set_state(m, node, desired), ret |-> TRUE]
    ELSE [m |-> Touch(m, {node}), ret |-> FALSE]

\* rebalancing_acquire of part_000, lines 130-133: the loads
neighbourhood_part_000(m, x) ==
    LET x_parent == node_atomic_get_parent(m, x)
        x_parent_parent == node_atomic_get_parent(m, x_parent)
        x_left == node_atomic_get_left(m, x)
        x_right == node_atomic_get_right(m, x)
    IN <<x, x_parent, x_parent_parent, x_left, x_right>>

\* rebalancing_acquire of part_000, lines 135-211: x is claimed first, each
\* other loaded node when it is not NIL and not yet in acquired[]; every claim
\* is a compare-exchange from Open to Balancing; on failure the claimed nodes
\* are set Open
RECURSIVE acquire_part_000(_, _, _, _)
acquire_part_000(m, cand, i, acquired) ==
    IF i > Len(cand) THEN [m |-> m, ret |-> TRUE, acquired |-> acquired]
    ELSE IF i > 1 /\ (cand[i] = NIL \/ InSeq(cand[i], acquired))
    THEN acquire_part_000(m, cand, i + 1, acquired)
    ELSE With([c \in {atomic_compare_exchange_weak(m, cand[i], "Open", "Balancing")} |->
           IF c.ret
           THEN With([got \in {Append(acquired, cand[i])} |->
                  acquire_part_000(c.m, cand, i + 1, got)])
           ELSE [m |-> rebalancing_release(c.m, acquired), ret |-> FALSE,
                 acquired |-> acquired]])

\* skew of part_000, lines 231-244: no parent is stored
skew_part_000(m, x) ==
    LET y == node_atomic_get_left(m, x)
        x_level == node_atomic_get_level(m, x)
        y_level == node_atomic_get_level(m, y)
        y_right == node_atomic_get_right(m, y)
    IN IF x_level = y_level /\ x # NIL
       THEN With([m1 \in {node_atomic_set_left(m, x, y_right)} |->
              [m |-> node_atomic_set_right(m1, y, x), ret |-> y]])
       ELSE [m |-> m, ret |-> x]

\* split of part_000, lines 255-270: no parent is stored
split_part_000(m, x) ==
    LET y == node_atomic_get_right(m, x)
        y_right == node_atomic_get_right(m, y)
        x_level == node_atomic_get_level(m, x)
        y_right_level == node_atomic_get_level(m, y_right)
        y_left == node_atomic_get_left(m, y)
    IN IF x_level = y_right_level /\ x # NIL
       THEN With([m1 \in {node_atomic_set_right(m, x, y_left)} |->
            With([m2 \in {node_atomic_set_left(m1, y, x)} |->
              [m |-> node_atomic_set_level(m2, y, node_atomic_get_level(m2, y) + 1),
               ret |-> y]])])
       ELSE [m |-> m, ret |-> x]

\* insert_sub of part_000 at current == NIL, lines 354-380: the claim of the
\* node, the claim of prev, and only then the initialisation and the count
landing_part_000(m, prev, node) ==
    With([c1 \in {atomic_compare_exchange_weak(m, node, "Open", "Insert")} |->
      IF ~c1.ret THEN [m |-> c1.m, ret |-> NIL]
      ELSE With([c2 \in {IF prev # NIL
                         THEN atomic_compare_exchange_weak(c1.m, prev, "Open", "Insert")
                         ELSE [m |-> c1.m, ret |-> TRUE]} |->
        IF ~c2.ret THEN [m |-> c2.m, ret |-> NIL]
        ELSE With([m2 \in {node_atomic_set_parent(c2.m, node, NIL)} |->
             With([m3 \in {node_atomic_set_left(m2, node, NIL)} |->
             With([m4 \in {node_atomic_set_right(m3, node, NIL)} |->
             With([m5 \in {node_atomic_set_level(m4, node, 1)} |->
               [m |-> [m5 EXCEPT !.count = @ + 1, !.owner[node] = "tree"],
                ret |-> node]])])])])])])

\* the keys the threads of the runs without the lock insert
LockFreeKeys == 3

\* where a frame of insert_sub returns to: its caller's store, or aatree_insert
AfterPart000(stack) == IF Len(stack) = 1 THEN "v_setroot" ELSE "v_link"

InitLockFree ==
    /\ h = EmptyMem.h
    /\ root = NIL
    /\ count = 0
    /\ owner = EmptyMem.owner
    /\ relCount = EmptyMem.relCount
    /\ nilw = FALSE
    /\ inited = TRUE
    /\ keys = {}
    /\ last = NoOp
    /\ th = [t \in Threads |-> Idle]

\* aatree_insert of part_000, lines 435-438: the call, and the read of tree->root
\* for first_insert
LfInsertCall(t, node) ==
    /\ th[t].pc = "idle"
    /\ node \in 1..LockFreeKeys
    /\ owner[node] = "caller"
    /\ \A u \in Threads : th[u].pc = "idle" \/ th[u].node # node
    /\ th' = [th EXCEPT ![t].pc = "v_root", ![t].op = "insert",
                        ![t].key = KeyOf(node), ![t].node = node,
                        ![t].first_insert = (root = NIL)]
    /\ UNCHANGED <<h, root, count, inited, owner, relCount, nilw, keys, last>>

\* lines 440-441: a turn of the loop, which loads tree->root
LfInsertRoot(t) ==
    /\ th[t].pc = "v_root"
    /\ th' = [th EXCEPT ![t].pc = "v_enter",
                        ![t].stack = <<[cur |-> root, dir |-> "none", child |-> NIL]>>]
    /\ UNCHANGED <<h, root, count, inited, owner, relCount, nilw, keys, last>>

\* insert_sub of part_000, lines 354-429 up to the recursive call: at NIL the
\* landing (when a claim fails NIL is returned through every frame, lines
\* 391-396 and 412-417, and the loop of aatree_insert takes another turn); at
\* a node the compare, the load of the child and the call, or the return of
\* the node that holds the key
LfInsertEnter(t) ==
    /\ th[t].pc = "v_enter"
    /\ \E current \in {Top(t).cur}, mem \in {ConcMem} :
         IF current = NIL
         THEN \E prev \in {IF Len(th[t].stack) > 1
                           THEN th[t].stack[Len(th[t].stack) - 1].cur ELSE NIL} :
              \E land \in {landing_part_000(mem, prev, th[t].node)} :
                /\ ConcStore(land.m)
                /\ IF land.ret = NIL
                   THEN th' = [th EXCEPT ![t].pc = "v_root", ![t].stack = <<>>,
                                         ![t].retried = TRUE]
                   ELSE th' = [th EXCEPT ![t].pc = AfterPart000(th[t].stack),
                                         ![t].ret = land.ret,
                                         ![t].stack = Pop(@)]
         ELSE \E cmp \in {my_node_cmp(th[t].key, current)} :
              \E child \in {IF cmp > 0 THEN node_atomic_get_right(mem, current)
                             ELSE node_atomic_get_left(mem, current)} :
                /\ ConcStore(mem)
                /\ IF cmp = 0
                   THEN th' = [th EXCEPT ![t].pc = AfterPart000(th[t].stack),
                                         ![t].ret = current,
                                         ![t].stack = Pop(@)]
                   ELSE th' = [th EXCEPT
                          ![t].stack = Append(
                              [@ EXCEPT ![Len(@)].dir = IF cmp > 0 THEN "right" ELSE "left",
                                        ![Len(@)].child = child],
                              [cur |-> child, dir |-> "none", child |-> NIL])]

\* insert_sub of part_000, lines 398-404 and 419-425: the subtree the callee
\* returned is stored in current, and when the child loaded before the call
\* was NIL (need_restore) the node and current are set Open
LfInsertLink(t) ==
    /\ th[t].pc = "v_link"
    /\ \E f \in {Top(t)}, tmp \in {th[t].ret}, mem \in {ConcMem} :
       \E m1 \in {IF f.dir = "right"
                  THEN node_atomic_set_right(mem, f.cur, tmp)
                  ELSE node_atomic_set_left(mem, f.cur, tmp)} :
       \E m2 \in {node_atomic_set_parent(m1, tmp, f.cur)} :
       \E m3 \in {IF f.child = NIL
                  THEN node_atomic_set_state(
                           node_atomic_set_state(m2, th[t].node, "Open"), f.cur, "Open")
                  ELSE m2} :
         ConcStore(m3)
    /\ th' = [th EXCEPT ![t].pc = "v_acquire"]

\* rebalance_on_insert of part_000, line 279: the loads of rebalancing_acquire
LfInsertAcquire(t) ==
    /\ th[t].pc = "v_acquire"
    /\ \E mem \in {ConcMem} :
          /\ ConcStore(mem)
          /\ th' = [th EXCEPT ![t].pc = "v_claim",
                              ![t].cand = neighbourhood_part_000(mem, Top(t).cur)]

\* the claims of rebalancing_acquire, and the loop of lines 278-281
LfInsertClaim(t) ==
    /\ th[t].pc = "v_claim"
    /\ \E mem \in {ConcMem} :
       \E a \in {acquire_part_000(mem, th[t].cand, 1, <<>>)} :
          /\ ConcStore(a.m)
          /\ IF a.ret
             THEN th' = [th EXCEPT ![t].pc = "v_fix", ![t].acquired = a.acquired]
             ELSE th' = [th EXCEPT ![t].pc = "v_acquire", ![t].acquired = <<>>]

\* rebalance_on_insert of part_000, lines 284-285: skew, then split
LfInsertFix(t) ==
    /\ th[t].pc = "v_fix"
    /\ \E mem \in {ConcMem} :
       \E skewed \in {skew_part_000(mem, Top(t).cur)} :
       \E new_head \in {split_part_000(skewed.m, skewed.ret)} :
          /\ ConcStore(new_head.m)
          /\ th' = [th EXCEPT ![t].pc = "v_release", ![t].ret = new_head.ret]

\* rebalance_on_insert of part_000, lines 288-290, and the return of insert_sub
LfInsertRelease(t) ==
    /\ th[t].pc = "v_release"
    /\ \E mem \in {ConcMem} : ConcStore(rebalancing_release(mem, th[t].acquired))
    /\ th' = [th EXCEPT ![t].pc = AfterPart000(th[t].stack),
                        ![t].stack = Pop(@),
                        ![t].acquired = <<>>,
                        ![t].cand = <<>>]

\* aatree_insert of part_000, lines 443-448: the store of tree->root, the
\* store of Open in the root when the tree was empty at the call, the return
LfInsertSetRoot(t) ==
    /\ th[t].pc = "v_setroot"
    /\ \E mem \in {ConcMem} :
       \E m1 \in {[mem EXCEPT !.root = th[t].ret]} :
       \E m2 \in {IF th[t].first_insert
                  THEN node_atomic_set_state(m1, m1.root, "Open") ELSE m1} :
          /\ h' = m2.h /\ root' = m2.root /\ nilw' = m2.nilw
    /\ keys' = keys \cup {th[t].key}
    /\ th' = [th EXCEPT ![t].pc = "done"]
    /\ UNCHANGED <<count, inited, owner, relCount, last>>

\* the next aatree_insert of the same thread
LfAgain(t) ==
    /\ th[t].pc = "done"
    /\ th[t].ops + 1 < MaxOps
    /\ th' = [th EXCEPT ![t] = [Idle EXCEPT !.ops = th[t].ops + 1]]
    /\ UNCHANGED <<h, root, count, inited, owner, relCount, nilw, keys, last>>

StepLockFree(t) ==
    \/ \E node \in Nodes : LfInsertCall(t, node)
    \/ LfInsertRoot(t)
    \/ LfInsertEnter(t)
    \/ LfInsertLink(t)
    \/ LfInsertAcquire(t)
    \/ LfInsertClaim(t)
    \/ LfInsertFix(t)
    \/ LfInsertRelease(t)
    \/ LfInsertSetRoot(t)
    \/ LfAgain(t)

NextLockFree == \E t \in Threads : StepLockFree(t)

SpecLockFree == InitLockFree /\ [][NextLockFree]_vars

\* C31: when the landing of an insert without the tree-wide lock fails on
\* the claim of prev after the claim of the new node succeeded, the attempt
\* leaves the new node Open, so that the claim of the next attempt can succeed.
CounterexampleC31 ==
    [][\A t \in Threads :
          (/\ th[t].pc = "v_enter" /\ th'[t].pc = "v_root"
           /\ h[th[t].node].state = "Open") =>
              h'[th[t].node].state = "Open"]_vars

\* the nodes of the inserts that have returned
Returned == {n \in 1..LockFreeKeys : KeyOf(n) \in keys}

\* C32: without the tree-wide lock, when the inserts of two threads on a tree
\* that was not empty at their calls have both returned (and no insert is in
\* flight), every inserted node is reachable from the root and count is the
\* number of inserts that returned.
CounterexampleC32 ==
    (/\ \A t \in Threads : th[t].pc = "done" /\ ~th[t].first_insert) =>
        /\ Returned \subseteq subtree(h, root, NumNodes + 1)
        /\ count = Cardinality(Returned)

\* C33: after every completed operation of a run that executes one
\* operation at a time, for every node n reachable from the root a
\* non-sentinel left child and a non-sentinel right child of n have parent n,
\* and the parent of the root is the sentinel.
CounterexampleC33 ==
    /\ root # NIL => h[root].parent = NIL
    /\ \A n \in Reach :
          /\ h[n].left # NIL => h[h[n].left].parent = n
          /\ h[n].right # NIL => h[h[n].right].parent = n

\* C34: whenever no thread is inside a call, every node reachable from the
\* root is Open (the spec's Idle): the Insert claim on the landing parent and
\* every Balancing claim have been released, and no state copied by
\* *new = *old is left behind.
TheoremC34 == Joined => \A n \in Reach : h[n].state = "Open"

\* both threads have returned, one from an insert that landed under a parent
\* it had to claim, the other from a remove that dropped a node
WitnessC34 ==
    /\ \A t \in Threads : th[t].pc = "done"
    /\ \E t \in Threads :
          /\ th[t].op = "insert"
          /\ th[t].node \in Reach
          /\ Cardinality(Reach) > 1
    /\ \E t \in Threads : th[t].op = "remove" /\ th[t].node # NIL
    /\ last.uaf = {}

\* C35: the release at the end of rebalance_on_remove stores Open (the spec's
\* Idle) in exactly the nodes the call claimed in its own successful
\* acquisition and changes the state of no other node; called on the sentinel,
\* where no acquisition is made, it changes the state of no node.
CounterexampleC35 ==
    [][\A t \in Threads :
          (th[t].pc = "release" /\ th'[t].pc # "release") =>
              \A own \in {IF Top(t).cur = NIL THEN {} ELSE SeqSet(th[t].acquired)} :
              \A n \in Nodes :
                  /\ n \in own => h'[n].state = "Open"
                  /\ n \notin own => h'[n].state = h[n].state]_vars

====
